---- MODULE Spec2Model ----
(***************************************************************************)
(* Model of the interLink SLURM sidecar (package slurm): the Submit and    *)
(* Status HTTP handlers, the job registry with its on-disk recovery, and   *)
(* deletion.                                                               *)
(*                                                                         *)
(* Strings are sequences of tokens, so that Go's string concatenation is   *)
(* sequence concatenation (\o) and two strings are equal exactly when      *)
(* their token sequences are.  A path is a string; the tokens "/" separate *)
(* its components.  The file system maps the paths that exist to a record  *)
(* [kind, data].                                                           *)
(*                                                                         *)
(* A handler is a goroutine; nothing in the package locks.  One step of a  *)
(* handler ends where the goroutine waits for the outside (the request     *)
(* body, a child process) and at every read or store of a package-level    *)
(* variable (prefix, timer, cachedStatus); what a child process does takes *)
(* effect in the step in which the handler sees it return.  In the Status  *)
(* handler the test of a registry instant, its assignment, os.Create of    *)
(* the timestamp file and f.WriteString are steps of their own.            *)
(*                                                                         *)
(* The registry is a Go map shared by the goroutines.  When one of them    *)
(* assigns to it or deletes from it while another reads or writes it, the  *)
(* two accesses either happen one after the other or the Go runtime stops  *)
(* the process (fatal error: concurrent map writes, concurrent map read    *)
(* and map write); Fatal is that second outcome.                           *)
(***************************************************************************)
EXTENDS Integers, Sequences, FiniteSets, TLC

VARIABLES
    JIDs,          \* h.JIDs: map[string]*JidStruct, the registry
    fs,            \* the file system under DataRootFolder
    prefix,        \* package-level  var prefix string
    timer,         \* package-level  var timer time.Time (0 = zero instant)
    cachedStatus,  \* package-level  var cachedStatus []PodStatus
    now,           \* the wall clock read by time.Now()
    slurm,         \* the workload manager: accepted jobs, scancel calls
    hs,            \* the request handlers in flight, one record per goroutine
    nSubmits,      \* Submit requests received so far
    loadErr,       \* the error the last LoadJIDs returned, "" for nil
    listing,       \* the directories its dir.ReadDir returned, in that order
    lastStatus,    \* the response the caller got to its previous Status call
    config,        \* h.Config: the fields that differ between deployments
    environ        \* the process environment: SHARED_FS, and what os.Setenv set

vars == <<JIDs, fs, prefix, timer, cachedStatus, now, slurm, hs, nSubmits, loadErr, listing,
          lastStatus, config, environ>>

-----------------------------------------------------------------------------
(* Bounds of the model *)

MaxSubmits == 2     \* Submit requests per behaviour
MaxTime == 20       \* the clock stops here
TickStep == 5       \* seconds between two observable instants
FirstJob == 9       \* first job number the workload manager hands out

(* Program constants *)

RateLimitSeconds == 10

-----------------------------------------------------------------------------
(* Configuration (commonIL.InterLinkConfig), fixed for the process *)

DataRootFolder == <<".interlink/">>
BashPath == <<"/bin/bash">>
Commandprefix == <<"export INTERLINK=1">>
Tsocks == FALSE
Tsockslogin == <<"user@host">>
Tsockspath == <<"/lib/libtsocks.so">>
ExportPodData == FALSE
SingularityPrefix == <<"srun --mpi=none">>

-----------------------------------------------------------------------------
(* The pods the orchestrator may send *)

Pods == {"p1", "p2"}

PodUID(p) == IF p = "p1" THEN <<"uid1">> ELSE <<"uid2">>

PodNamespace(p) == IF p = "p1" THEN <<"default">> ELSE <<"vk">>

PodName(p) == IF p = "p1" THEN <<"pod-one">> ELSE <<"pod-two">>

PodContainers(p) ==
    IF p = "p1"
    THEN << [Name |-> <<"main">>, Image |-> <<"ubuntu">>,
             Command |-> << <<"echo">> >>, Args |-> << <<"hi">> >>,
             Env |-> << >>,
             VolumeMounts |-> << [Name |-> <<"conf">>, MountPath |-> <<"/etc/conf">>] >>] >>
    ELSE << [Name |-> <<"main">>, Image |-> <<"/", "img/tool.sif">>,
             Command |-> << <<"run">> >>, Args |-> << >>,
             Env |-> << [Name |-> <<"A">>, Value |-> <<"1">>],
                        [Name |-> <<"B">>, Value |-> <<"2">>] >>,
             VolumeMounts |-> << [Name |-> <<"conf">>, MountPath |-> <<"/etc/conf">>],
                                 [Name |-> <<"scratch">>, MountPath |-> <<"/tmp">>] >>],
            [Name |-> <<"side">>, Image |-> <<"busybox">>,
             Command |-> << <<"sleep">> >>, Args |-> << <<"1">> >>,
             Env |-> << >>, VolumeMounts |-> << >>] >>

\* pod.Spec.Volumes: the name of each volume, the source it is of and
\* whether the source's DefaultMode is set (an empty-dir has none).  Both
\* pods call their first volume conf: a config-map in p1, a secret in p2.
PodVolumes(p) ==
    IF p = "p1"
    THEN << [Name |-> <<"conf">>, Kind |-> "ConfigMap", DefaultMode |-> TRUE] >>
    ELSE << [Name |-> <<"conf">>, Kind |-> "Secret", DefaultMode |-> TRUE],
            [Name |-> <<"scratch">>, Kind |-> "EmptyDir", DefaultMode |-> FALSE] >>

\* data.Containers: the per-container bundle of config-maps, secrets and
\* empty-dirs retrieved for the pod (commonIL.RetrievedPodData)
RetrievedContainers(p) ==
    IF p = "p1"
    THEN << [Name |-> <<"main">>,
             ConfigMaps |-> << [Name |-> <<"cm">>,
                                Data |-> << [key |-> <<"k">>, value |-> <<"v">>],
                                            [key |-> <<"k2">>, value |-> <<"v2">>] >>] >>,
             Secrets |-> << >>, EmptyDirs |-> << >>] >>
    ELSE << [Name |-> <<"main">>, ConfigMaps |-> << >>,
             Secrets |-> << [Name |-> <<"sec">>,
                             Data |-> << [key |-> <<"token">>, value |-> <<"s3cret">>] >>] >>,
             EmptyDirs |-> << <<"scratch">> >>] >>

\* metadata.Annotations: the keys present and their values
AnnotationKeys(p) ==
    IF p = "p1"
    THEN {"job.vk.io/pre-exec"}
    ELSE {"job.vk.io/pre-exec", "slurm-job.vk.io/flags",
          "slurm-job.vk.io/mpi-flags", "slurm-job.vk.io/image-root",
          "job.vk.io/singularity-commands"}

Annotation(p, key) ==
    CASE key = "job.vk.io/pre-exec" ->
            IF p = "p1" THEN <<"module load one">> ELSE <<"module load two">>
      [] key = "slurm-job.vk.io/flags" -> <<"--mem=1G", " ", "--time=10">>
      [] key = "slurm-job.vk.io/mpi-flags" -> <<"--bind-to", " ", "core">>
      [] key = "slurm-job.vk.io/image-root" -> <<"/cvmfs">>
      [] key = "job.vk.io/singularity-commands" -> <<"--cleanenv">>
      [] OTHER -> << >>

-----------------------------------------------------------------------------
(* Sequences *)

IsPrefixOf(s, t) == Len(s) <= Len(t) /\ SubSeq(t, 1, Len(s)) = s

Range(s) == {s[i] : i \in 1..Len(s)}

RECURSIVE Flatten(_)
Flatten(ss) == IF ss = << >> THEN << >> ELSE Head(ss) \o Flatten(Tail(ss))

-----------------------------------------------------------------------------
(* The file system: os.MkdirAll, os.Create, WriteString, os.RemoveAll *)

Dir == [kind |-> "dir", data |-> << >>]

FileOf(d) == [kind |-> "file", data |-> d]

Exists(f, p) == p \in DOMAIN f

Put(f, p, v) == [q \in DOMAIN f \cup {p} |-> IF q = p THEN v ELSE f[q]]

\* the directories above p: DataRootFolder, and p cut before each "/"
Parents(p) ==
    {SubSeq(p, 1, i - 1) : i \in {j \in 2..Len(p) : p[j] = "/"}}
    \cup (IF IsPrefixOf(DataRootFolder, p) THEN {DataRootFolder} ELSE {})

\* os.MkdirAll(p), mkdir -p p: p and the missing directories above it
MkdirAll(f, p) ==
    [q \in DOMAIN f \cup Parents(p) \cup {p} |-> IF q \in DOMAIN f THEN f[q] ELSE Dir]

Under(p, q) == q = p \/ IsPrefixOf(p \o <<"/">>, q)

RemoveAll(f, p) == [q \in {x \in DOMAIN f : ~Under(p, x)} |-> f[q]]

-----------------------------------------------------------------------------
(* Paths *)

\* filesPath := h.Config.DataRootFolder + data.Pod.Namespace + "-" + string(data.Pod.UID)
FilesPath(p) == DataRootFolder \o PodNamespace(p) \o <<"-">> \o PodUID(p)

FileIn(dir, name) == dir \o <<"/">> \o name

JobIDFile(p) == FileIn(FilesPath(p), <<"JobID.jid">>)

JobScript(p) == FileIn(FilesPath(p), <<"job.sh">>)

StartedAtFile(path) == FileIn(path, <<"StartedAt.time">>)

FinishedAtFile(path) == FileIn(path, <<"FinishedAt.time">>)

StatusFile(path, cname) == path \o <<"/">> \o cname \o <<".status">>

-----------------------------------------------------------------------------
(* strings.Split, strings.Join, strings.ReplaceAll(s, "\n", "") on tokens *)

RECURSIVE SplitOn(_, _, _)
SplitOn(s, sep, acc) ==
    IF s = << >> THEN <<acc>>
    ELSE IF Head(s) = sep THEN <<acc>> \o SplitOn(Tail(s), sep, << >>)
    ELSE SplitOn(Tail(s), sep, Append(acc, Head(s)))

Split(s, sep) == SplitOn(s, sep, << >>)

RECURSIVE Join(_, _)
Join(ss, sep) ==
    IF ss = << >> THEN << >>
    ELSE IF Len(ss) = 1 THEN ss[1]
    ELSE ss[1] \o <<sep>> \o Join(Tail(ss), sep)

NotNewline(c) == c # "\n"

StripNewlines(s) == SelectSeq(s, NotNewline)

-----------------------------------------------------------------------------
(* Container command (SubmitHandler, prepareEnvs, prepareMounts)            *)
(* An argument vector is a sequence of strings.                             *)

StripTrailingComma(s) ==
    IF Len(s) >= 1 /\ s[Len(s)] = "," THEN SubSeq(s, 1, Len(s) - 1) ELSE s

RECURSIVE EnvData(_)
EnvData(envs) ==
    IF envs = << >> THEN << >>
    ELSE Head(envs).Name \o <<"=">> \o Head(envs).Value \o <<",">>
         \o EnvData(Tail(envs))

\* env := make([]string, 1) leaves one empty string in front of "--env"
prepareEnvs(container) ==
    IF Len(container.Env) > 0
    THEN LET env_data == StripTrailingComma(EnvData(container.Env))
         IN  IF env_data = << >>
             THEN << env_data >>
             ELSE << << >>, <<"--env">>, env_data >>
    ELSE << >>

\* the orders in which  for key := range m  may visit a map of n entries: Go
\* draws one at every loop
KeyOrders(n) == {o \in [1..n -> 1..n] : \A i \in 1..n : \E j \in 1..n : o[j] = i}

\* the pairs (mountSpec, vol) with vol.Name == mountSpec.Name, in the order
\* of the two loops of aux.go:429-433
MatchedVolumes(container, p) ==
    Flatten([i \in 1..Len(container.VolumeMounts) |->
        LET Same(v) == v.Name = container.VolumeMounts[i].Name
            vols == SelectSeq(PodVolumes(p), Same)
        IN  [j \in 1..Len(vols) |-> [mount |-> container.VolumeMounts[i], vol |-> vols[j]]]])

\* mountData from its entry to the point where it returns or calls
\* shell.Execute (aux.go:428-479, 512-554, 587-599).  kind is the dynamic type
\* of data (ConfigMap, Secret, or EmptyDir for a string), order the order in
\* which  for key := range mount.Data  visits the keys, st the disk and the
\* variables of the environment as the call finds them.  The call ends at the
\* first matched volume whose source is of that kind, whatever config-map or
\* secret data is; the directories of the matched volumes seen until then
\* are removed.  rmFail is the matched volume at which os.RemoveAll fails
\* (0: at none): the call returns that error (lines 442-447, 517-522).
\* wait: the call goes on to run mkdir.
mountEntry(path, container, p, kind, data, order, rmFail, st) ==
    LET pairs == MatchedVolumes(container, p)
        hits == {i \in 1..Len(pairs) : pairs[i].vol.Kind = kind}
        k == IF hits = {} THEN 0 ELSE CHOOSE i \in hits : \A j \in hits : i <= j
        sub == IF kind = "ConfigMap" THEN <<"configMaps">>
               ELSE IF kind = "Secret" THEN <<"secrets">> ELSE <<"emptyDirs">>
        DirOf(i) == path \o <<"/">> \o sub \o <<"/">> \o pairs[i].vol.Name
        last == IF k = 0 THEN Len(pairs) ELSE k
        failed == kind # "EmptyDir" /\ rmFail \in 1..last
        visited == 1..(IF failed THEN rmFail - 1 ELSE last)
        \* os.RemoveAll(path + "/configMaps/" + vol.Name), lines 442 and 517
        removed == IF kind = "EmptyDir" THEN st.fs
                   ELSE [q \in {x \in DOMAIN st.fs :
                                  \A i \in visited : ~Under(DirOf(i), x)} |-> st.fs[q]]
        shared == environ.SHARED_FS = "true"
        n == IF k = 0 \/ kind = "EmptyDir" THEN 0 ELSE Len(data.Data)
        item(i) == data.Data[order[i]]
        paths == [i \in 1..n |->
                    DirOf(k) \o <<"/">> \o item(i).key \o <<":">>
                    \o pairs[k].mount.MountPath \o <<"/">> \o item(i).key \o <<",">>]
        tag == IF kind = "ConfigMap" THEN <<"_CFG_">> ELSE <<"_SECRET_">>
        envs == IF shared THEN << >>
                ELSE [i \in 1..n |-> container.Name \o tag \o item(i).key]
        \* os.Setenv(env, mount.Data[key]), lines 464 and 539
        set == [e \in DOMAIN st.vars \cup Range(envs) |->
                   IF e \in Range(envs)
                   THEN item(CHOOSE i \in 1..n : envs[i] = e).value
                   ELSE st.vars[e]]
        Entry(hit, panic, wait, ps, es, f, ev) ==
            [hit |-> hit, panic |-> panic, wait |-> wait, kind |-> kind,
             err |-> FALSE,
             paths |-> ps, envs |-> es, fs |-> f, vars |-> ev,
             dir |-> IF hit THEN DirOf(k) ELSE << >>,
             mount |-> IF hit THEN pairs[k].mount ELSE << >>,
             files |-> IF hit /\ kind # "EmptyDir" THEN data.Data ELSE << >>]
    IN  IF config.ExportPodData /\ failed
        THEN [Entry(FALSE, FALSE, FALSE, << >>, << >>, removed, st.vars)
                 EXCEPT !.err = TRUE]
        ELSE IF ~config.ExportPodData \/ k = 0
        THEN Entry(FALSE, FALSE, FALSE, << >>, << >>,
                   IF config.ExportPodData THEN removed ELSE st.fs, st.vars)
        ELSE IF kind = "EmptyDir"
        THEN Entry(TRUE, FALSE, TRUE, << >>, << >>, st.fs, st.vars)
        \* lines 451 and 526: *podVolumeSpec.ConfigMap.DefaultMode
        ELSE IF ~pairs[k].vol.DefaultMode
        THEN Entry(TRUE, TRUE, FALSE, << >>, << >>, removed, st.vars)
        ELSE Entry(TRUE, FALSE, shared, paths, envs, removed, set)

\* mountData from the return of shell.Execute on (aux.go:479-509, 554-584,
\* 599-608); e is what mountEntry left, f the disk now.
\*   exec   : "ok" mkdir made the directory; "stderr" mkdir failed with a
\*            message; "err" the command could not be run
\*   worder : the order in which  for k, v := range configMaps  visits the keys
\*   wrote  : the keys whose os.WriteFile succeeds
\* The config-map branch tests err, then Stderr, and returns at the first
\* failed write.  The secret branch tests Stdout and Stderr but not err, drops
\* the result of os.WriteFile and tests the err of Execute after the first
\* write.  The empty-dir branch tests err alone.
mountFiles(e, exec, worder, wrote, f) ==
    LET n == Len(e.files)
        File(i) == e.dir \o <<"/">> \o e.files[worder[i]].key
        made == IF exec = "ok" THEN MkdirAll(f, e.dir) ELSE f
        \* the first position of worder whose write fails, n + 1 when none does
        stop == IF \A i \in 1..n : worder[i] \in wrote THEN n + 1
                ELSE CHOOSE i \in 1..n :
                        /\ worder[i] \notin wrote
                        /\ \A j \in 1..(i - 1) : worder[j] \in wrote
        Written(upto, ok) ==
            LET done == {i \in 1..upto : worder[i] \in ok}
            IN  [q \in DOMAIN made \cup {File(i) : i \in done} |->
                    IF \E i \in done : File(i) = q
                    THEN FileOf(e.files[worder[CHOOSE i \in done : File(i) = q]].value)
                    ELSE made[q]]
        Result(paths, envs, err, g) == [paths |-> paths, envs |-> envs, err |-> err, fs |-> g]
    IN  CASE e.kind = "EmptyDir" ->
                IF exec = "err" THEN Result(<< >>, << >>, TRUE, made)
                ELSE Result(<< e.dir \o <<":">> \o e.mount.MountPath \o <<"/">>
                               \o e.mount.Name \o <<",">> >>, << >>, FALSE, made)
          [] e.kind = "ConfigMap" ->
                IF exec # "ok" THEN Result(<< >>, << >>, TRUE, made)
                ELSE IF stop <= n THEN Result(<< >>, << >>, TRUE, Written(stop - 1, wrote))
                ELSE Result(e.paths, e.envs, FALSE, Written(n, wrote))
          [] e.kind = "Secret" ->
                IF exec = "stderr" THEN Result(<< >>, << >>, TRUE, made)
                ELSE IF exec = "err"
                THEN IF n = 0 THEN Result(e.paths, e.envs, FALSE, made)
                     ELSE Result(<< >>, << >>, FALSE, made)
                ELSE Result(e.paths, e.envs, FALSE, Written(n, wrote))

\* what the environment does during one step of prepareMounts, for a call
\* on data of n keys from a container with m matched volumes
CallOutcomes(n, m) ==
    [mkdirOK : BOOLEAN, order : KeyOrders(n), rmFail : 0..m,
     exec : {"ok", "stderr", "err"}, worder : KeyOrders(n), wrote : SUBSET (1..n)]

\* mountData, aux.go:427-616, from call to return
mountData(path, container, p, kind, data, out, st) ==
    LET e == mountEntry(path, container, p, kind, data, out.order, out.rmFail, st)
        r == mountFiles(e, out.exec, out.worder, out.wrote, e.fs)
    IN  IF e.wait
        THEN [paths |-> r.paths, envs |-> r.envs, err |-> r.err, panic |-> FALSE,
              fs |-> r.fs, vars |-> e.vars]
        ELSE [paths |-> e.paths, envs |-> e.envs, err |-> e.err, panic |-> e.panic,
              fs |-> e.fs, vars |-> e.vars]

\* the steps of prepareMounts for one container (aux.go:165-227), in order:
\* for every pod of the request os.MkdirAll of the working directory, then for
\* every bundle of that pod with the container's name a call of mountData for
\* each config-map, each secret, each empty-dir.  With ExportPodData false
\* mountData returns at once, and the calls are left out.
MountCalls(container, req) ==
    LET Calls(q, kind, vols) ==
            [i \in 1..Len(vols) |-> [kind |-> kind, pod |-> q, data |-> vols[i]]]
        OfBundle(q, cont) ==
            IF container.Name # cont.Name \/ ~config.ExportPodData THEN << >>
            ELSE Calls(q, "ConfigMap", cont.ConfigMaps)
                 \o Calls(q, "Secret", cont.Secrets)
                 \o Calls(q, "EmptyDir", cont.EmptyDirs)
    IN  Flatten([a \in 1..Len(req) |->
            << [kind |-> "MkdirAll", pod |-> req[a], data |-> << >>] >>
            \o Flatten([b \in 1..Len(RetrievedContainers(req[a])) |->
                          OfBundle(req[a], RetrievedContainers(req[a])[b])])])

\* the number of keys of the data of a call
KeysOf(call) == IF call.kind \in {"ConfigMap", "Secret"} THEN Len(call.data.Data) ELSE 0

\* aux.go:183-190 and 202-209: the statements  prefix += ...  run for the
\* paths a call returned, when SHARED_FS is not "true"; one text per statement
PrefixFragments(kind, paths, envs) ==
    IF kind = "EmptyDir" \/ environ.SHARED_FS = "true" THEN << >>
    ELSE [i \in 1..Len(paths) |->
            LET dirs == Split(paths[i], ":")
                splitDirs == Split(dirs[1], "/")
                dir == Join(SubSeq(splitDirs, 1, Len(splitDirs) - 1), "/")
            IN  <<"\nmkdir -p ">> \o dir \o <<" && touch ">> \o dirs[1]
                \o <<" && echo $">> \o envs[i] \o <<" > ">> \o dirs[1]]

\* the steps made one after the other, each on the disk and environment the
\* one before left; the first error ends prepareMounts (aux.go:167-169,
\* 178-181).  outs[i] is what the environment does during step i.
RECURSIVE RunMounts(_, _, _, _, _)
RunMounts(calls, outs, path, container, st) ==
    IF calls = << >> \/ st.err \/ st.panic THEN st
    ELSE LET c == Head(calls)
             o == Head(outs)
             r == mountData(path, container, c.pod, c.kind, c.data, o, st)
         IN  IF c.kind = "MkdirAll"
             THEN IF o.mkdirOK
                  THEN RunMounts(Tail(calls), Tail(outs), path, container,
                                 [st EXCEPT !.fs = MkdirAll(@, path)])
                  ELSE [st EXCEPT !.err = TRUE]
             ELSE RunMounts(Tail(calls), Tail(outs), path, container,
                       [st EXCEPT !.fs = r.fs, !.vars = r.vars, !.err = r.err,
                                  !.panic = r.panic,
                                  !.mounted = @ \o Flatten(r.paths),
                                  !.stmts = @ \o PrefixFragments(c.kind, r.paths, r.envs)])

\* aux.go:232-238: the comma at the end is cut; nothing mounted gives an
\* empty vector, else make([]string, 1) leaves one empty string before --bind
MountVector(mounted) ==
    LET mountedData == StripTrailingComma(mounted)
    IN  IF Len(mountedData) = 0
        THEN << >>
        ELSE << << >>, <<"--bind">>, mountedData >>

\* prepareMounts, aux.go:153-239: the vector returned, whether an error was,
\* the disk and the environment it leaves, and the texts its statements
\* prefix +=  append, in order
prepareMounts(workingPath, container, req, outs, st) ==
    LET r == RunMounts(MountCalls(container, req), outs, workingPath, container,
                       [fs |-> st.fs, vars |-> st.vars, mounted |-> << >>,
                        stmts |-> << >>, err |-> FALSE, panic |-> FALSE])
    IN  [mount |-> IF r.err \/ r.panic THEN << >> ELSE MountVector(r.mounted),
         err |-> r.err, panic |-> r.panic, fs |-> r.fs, vars |-> r.vars,
         stmts |-> r.stmts]

ImageOf(p, container) ==
    IF IsPrefixOf(<<"/">>, container.Image)
    THEN IF "slurm-job.vk.io/image-root" \in AnnotationKeys(p)
         THEN Annotation(p, "slurm-job.vk.io/image-root") \o container.Image
         ELSE container.Image
    ELSE container.Image

\* part_000:50-53: the configured prefix, extended by the annotation
singularityPrefix(p) ==
    SingularityPrefix
    \o (IF "job.vk.io/singularity-commands" \in AnnotationKeys(p)
        THEN <<" ">> \o Annotation(p, "job.vk.io/singularity-commands")
        ELSE << >>)

\* part_000:54-86.  singularityPrefix is computed and never used: the vector
\* starts with commstr1
singularity_command(p, container, mounts) ==
    << <<"singularity">>, <<"exec">>, <<"--writable-tmpfs">>, <<"--nv">>, <<"-H">>,
       <<"${HOME}/">> \o DataRootFolder \o PodUID(p) \o <<":${HOME}">> >>
    \o prepareEnvs(container)
    \o mounts
    \o << ImageOf(p, container) >>
    \o container.Command
    \o container.Args

\* part_000:46-89: one command per container, mounts[i] being what
\* prepareMounts returned for the i-th
singularity_command_pod(p, mounts) ==
    [i \in 1..Len(PodContainers(p)) |->
        [command |-> singularity_command(p, PodContainers(p)[i], mounts[i]),
         containerName |-> PodContainers(p)[i].Name]]

\* no container of the pod mounts anything
NoMounts(p) == [i \in 1..Len(PodContainers(p)) |-> << >>]

-----------------------------------------------------------------------------
(* Batch script (produceSLURMScript) *)

HasAnnotation(p, key) == key \in AnnotationKeys(p)

sbatch_flags_from_argo(p) ==
    IF HasAnnotation(p, "slurm-job.vk.io/flags")
    THEN Split(Annotation(p, "slurm-job.vk.io/flags"), " ")
    ELSE << >>

RECURSIVE sbatch_flags_as_string(_)
sbatch_flags_as_string(flags) ==
    IF flags = << >> THEN << >>
    ELSE <<"\n#SBATCH ">> \o Head(flags) \o sbatch_flags_as_string(Tail(flags))

\* line 286: mpiexec -np $SLURM_NTASKS and the flags of the annotation
mpi(p) ==
    << <<"mpiexec">>, <<"-np">>, <<"$SLURM_NTASKS">> >>
    \o Split(Annotation(p, "slurm-job.vk.io/mpi-flags"), " ")

\* lines 284-291: the loop variable singularityCommand is a copy of the slice
\* element, so the assignment of append(mpi, ...) inside the loop is lost and
\* commands is left as it was
MpiWrapped(p, commands) ==
    IF HasAnnotation(p, "slurm-job.vk.io/mpi-flags")
       /\ Annotation(p, "slurm-job.vk.io/mpi-flags") # <<"true">>
    THEN LET singularityCommand ==
                 [i \in 1..Len(commands) |->
                     [commands[i] EXCEPT !.command = mpi(p) \o @]]
         IN  commands
    ELSE commands

\* aux.go:301-315: the texts of the fourteen statements  prefix += ...
TsocksPrefix(p) ==
    IF Tsocks
    THEN << <<"\n\nmin_port=10000">>, <<"\nmax_port=65000">>,
            <<"\nfor ((port=$min_port; port<=$max_port; port++))">>, <<"\ndo">>,
            <<"\n  temp=$(ss -tulpn | grep :$port)">>, <<"\n  if [ -z \"$temp\" ]">>,
            <<"\n  then">>, <<"\n    break">>, <<"\n  fi">>, <<"\ndone">>,
            <<"\nssh -4 -N -D $port ">> \o Tsockslogin \o <<" &">>,
            <<"\nSSH_PID=$!">>,
            <<"\necho \"local = 10.0.0.0/255.0.0.0 \nserver = 127.0.0.1 \nserver_port = $port\" >> .tmp/">>
                \o PodUID(p) \o <<"_tsocks.conf">>,
            <<"\nexport TSOCKS_CONF_FILE=.tmp/">> \o PodUID(p)
                \o <<"_tsocks.conf && export LD_PRELOAD=">> \o Tsockspath >>
    ELSE << >>

\* aux.go:297-324: the texts that the statements  prefix += ...  of one call
\* of produceSLURMScript append, one per statement, in order
PrefixStatements(p) ==
    TsocksPrefix(p)
    \o (IF Commandprefix # << >> THEN << <<"\n">> \o Commandprefix >> ELSE << >>)
    \o (IF HasAnnotation(p, "job.vk.io/pre-exec")
        THEN << <<"\n">> \o Annotation(p, "job.vk.io/pre-exec") >> ELSE << >>)

\* what one call of produceSLURMScript appends to the package-level prefix
\* when no other handler runs
PrefixAppended(p) == Flatten(PrefixStatements(p))

Postfix == IF Tsocks THEN <<"\n\nkill -15 $SSH_PID &> log2.txt">> ELSE << >>

sbatch_macros(path, p) ==
    <<"#!">> \o BashPath
    \o <<"\n#SBATCH --job-name=">> \o PodUID(p)
    \o <<"\n#SBATCH --output=">> \o path \o <<"/job.out">>
    \o sbatch_flags_as_string(sbatch_flags_from_argo(p))
    \o <<"\n">>

ScriptLine(path, cmd) ==
    <<"\n">> \o Join(cmd.command, " ")
    \o <<" &> ">> \o path \o <<"/">> \o cmd.containerName \o <<".out; ">>
    \o <<"echo $? > ">> \o path \o <<"/">> \o cmd.containerName \o <<".status &">>

\* stringToBeWritten, kept in its four regions: the directives, the value of
\* the package-level prefix at line 331, the container lines, the postfix
stringToBeWritten(path, p, commands, pfx) ==
    [macros |-> sbatch_macros(path, p),
     prefix |-> pfx \o <<"\n">>,
     lines |-> [i \in 1..Len(commands) |->
                   ScriptLine(path, MpiWrapped(p, commands)[i])],
     postfix |-> <<"\n">> \o Postfix]

-----------------------------------------------------------------------------
(* sbatch output and the job identifier (SLURMBatchSubmit, handleJID) *)

DigitChars == <<"0", "1", "2", "3", "4", "5", "6", "7", "8", "9">>

IsDigit(c) == c \in Range(DigitChars)

\* the decimal form of a job number, as the workload manager prints it
RECURSIVE Digits(_)
Digits(n) ==
    IF n < 10 THEN <<DigitChars[n + 1]>>
    ELSE Digits(n \div 10) \o <<DigitChars[(n % 10) + 1]>>

\* the literal text of the pattern, one token
SubmittedBatchJob == "Submitted batch job "

RECURSIVE DigitRun(_)
DigitRun(s) ==
    IF s # << >> /\ IsDigit(Head(s)) THEN <<Head(s)>> \o DigitRun(Tail(s)) ELSE << >>

\* a pattern without the digit class: the match keeps everything that follows "Submitted batch job "
FindStringSubmatch_RestOfLine(output) ==
    IF output # << >> /\ Head(output) = SubmittedBatchJob /\ Len(output) > 1
    THEN Tail(output)
    ELSE << >>

\* regexp `Submitted batch job (?P<jid>\d+)`, FindStringSubmatch: the capture
\* group of the leftmost match, or << >> for the nil slice of no match
RECURSIVE FindStringSubmatch(_)
FindStringSubmatch(output) ==
    IF output = << >> THEN << >>
    ELSE IF Head(output) = SubmittedBatchJob /\ DigitRun(Tail(output)) # << >>
         THEN DigitRun(Tail(output))
         ELSE FindStringSubmatch(Tail(output))

EmptyScript == [macros |-> << >>, prefix |-> << >>, lines |-> << >>, postfix |-> << >>]

\* what sbatch may print on stdout for the job number n it has just accepted
SbatchStdouts(n) ==
    { <<SubmittedBatchJob>> \o Digits(n) \o <<"\n">>,
      <<SubmittedBatchJob>> \o Digits(n) \o <<" on cluster hpc", "\n">>,
      Digits(n) \o <<"\n">> }

\* what it may print when it accepted nothing and wrote nothing to stderr
SbatchSilentStdouts == { << >>, <<"sbatch: nothing to do", "\n">> }

-----------------------------------------------------------------------------
(* Registry (map[string]*JidStruct) *)

JidStruct(uid, jid) == [PodUID |-> uid, JID |-> jid, StartTime |-> 0, EndTime |-> 0]

\* delete(*JIDs, podUID)
removeJID(podUID, reg) == [k \in DOMAIN reg \ {podUID} |-> reg[k]]

\* the entry is evicted and the directory removed whatever scancel answered
deleteContainerReturn_EvictOnError(podUID, path, reg, f, sl, jid, scancelOK) ==
    IF scancelOK /\ podUID \notin DOMAIN reg
    THEN [panic |-> TRUE, err |-> FALSE, JIDs |-> reg, fs |-> f,
          slurm |-> [sl EXCEPT !.cancelled = @ \cup {jid}]]
    ELSE [panic |-> FALSE, err |-> ~scancelOK,
          JIDs |-> removeJID(podUID, reg),
          fs |-> RemoveAll(f, path \o <<"/">> \o podUID),
          slurm |-> IF scancelOK THEN [sl EXCEPT !.cancelled = @ \cup {jid}] ELSE sl]

\* deleteContainer from the return of scancel on (aux.go:411-424); jid is the
\* identifier the command was given, reg and f the registry and the disk as
\* they are now.  scancelOK: exec.Command(...).Output() returned no error.
\* After a scancel that worked line 416 reads (*JIDs)[podUID].JID again, then
\* os.RemoveAll(path + "/" + podUID) and removeJID follow.
deleteContainerReturn(podUID, path, reg, f, sl, jid, scancelOK) ==
    IF ~scancelOK
    THEN [panic |-> FALSE, err |-> TRUE, JIDs |-> reg, fs |-> f, slurm |-> sl]
    ELSE IF podUID \notin DOMAIN reg
    THEN [panic |-> TRUE, err |-> FALSE, JIDs |-> reg, fs |-> f,
          slurm |-> [sl EXCEPT !.cancelled = @ \cup {jid}]]
    ELSE [panic |-> FALSE, err |-> FALSE,
          JIDs |-> removeJID(podUID, reg),
          fs |-> RemoveAll(f, path \o <<"/">> \o podUID),
          slurm |-> [sl EXCEPT !.cancelled = @ \cup {jid}]]

\* deleteContainer (aux.go:409-425) when nothing else runs while it waits
\* for scancel.  (*JIDs)[podUID] is nil for a missing key, and reading .JID
\* of it at line 411 panics.
deleteContainer(podUID, path, reg, f, sl, scancelOK) ==
    IF podUID \notin DOMAIN reg
    THEN [panic |-> TRUE, err |-> FALSE, JIDs |-> reg, fs |-> f, slurm |-> sl]
    ELSE deleteContainerReturn(podUID, path, reg, f, sl, reg[podUID].JID, scancelOK)

-----------------------------------------------------------------------------
(* Request handlers.  Each goroutine serving a request is a slot of hs; its  *)
(* record holds the handler's position and locals.                           *)

Slots == {1, 2}

Idle ==
    [op |-> "idle", pc |-> "idle", req |-> << >>, idx |-> 0,
     ct |-> 0, calls |-> << >>, md |-> << >>, mounted |-> << >>, cmds |-> << >>,
     stmts |-> << >>, after |-> "",
     out |-> << >>, tmp |-> << >>, jid |-> << >>, made |-> FALSE, accepted |-> << >>,
     match |-> << >>,
     statusCode |-> 200, resp |-> << >>, timeNow |-> 0,
     asked |-> << >>, t0 |-> 0, timer0 |-> 0, hit |-> FALSE, nsq |-> 0,
     changed |-> FALSE, obs |-> << >>, readErr |-> FALSE,
     cached0 |-> << >>, stamped |-> 0,
     code |-> 0, text |-> << >>, body |-> << >>, json |-> FALSE, panic |-> FALSE]

\* a goroutine of a process that the runtime has stopped: it is gone, and
\* its request gets no answer
Down == [Idle EXCEPT !.op = "down", !.pc = "down"]

\* the pod the handler in slot h is working on
Cur(h) == hs[h].req[hs[h].idx]

\* the container whose command the handler in slot h is building
CurContainer(h) == PodContainers(Cur(h))[hs[h].ct]

\* w.WriteHeader(c): the first call fixes the status code of the response
WriteHeader(s, c) == IF s.code = 0 THEN [s EXCEPT !.code = c] ELSE s

\* w.Write(msg)
Write(s, msg) == [s EXCEPT !.text = Append(@, msg)]

\* statusCode = 500; w.WriteHeader(statusCode); w.Write(msg); return
Fail(s, msg) ==
    [Write(WriteHeader(s, 500), msg) EXCEPT !.pc = "done", !.statusCode = 500]

\* a panic unwinds the handler; net/http recovers it and drops the connection
Panic(s) == [s EXCEPT !.pc = "done", !.panic = TRUE]

\* aux.go:183-191, 202-210, 221-223: a call of mountData has returned paths;
\* they are appended to mountedData, and the statements  prefix += ...  for
\* them are to run
Returned(s, kind, paths, envs) ==
    [s EXCEPT !.calls = Tail(@),
              !.mounted = @ \o Flatten(paths),
              !.stmts = PrefixFragments(kind, paths, envs),
              !.after = "mounts"]

\* where the loop over the containers (part_000:48-89) goes on after a step
\* of prepareMounts: to the statements  prefix += ...  that are to run, to the
\* next step of prepareMounts, or, when prepareMounts has returned, to the
\* command of the container (part_000:70-88) and the next container
Advance(s) ==
    LET p == s.req[s.idx]
        container == PodContainers(p)[s.ct]
        cmd == [command |-> singularity_command(p, container, MountVector(s.mounted)),
                containerName |-> container.Name]
        t == [s EXCEPT !.cmds = Append(@, cmd), !.mounted = << >>]
    IN  IF s.stmts # << >> THEN [s EXCEPT !.pc = "prefixRead"]
        ELSE IF s.calls # << >>
        THEN [s EXCEPT !.pc = IF Head(s.calls).kind = "MkdirAll"
                              THEN "mounts" ELSE "mountData"]
        ELSE IF s.ct < Len(PodContainers(p))
        THEN [t EXCEPT !.ct = @ + 1,
                       !.calls = MountCalls(PodContainers(p)[s.ct + 1], s.req),
                       !.pc = "mounts"]
        ELSE [t EXCEPT !.ct = 0, !.pc = "script"]

\* end of the body of  for _, data := range req  (part_000:41,120-128)
NextPod(s) ==
    IF s.idx < Len(s.req)
    THEN LET p == s.req[s.idx + 1]
             t == [s EXCEPT !.idx = @ + 1, !.out = << >>, !.tmp = << >>,
                            !.made = FALSE, !.cmds = << >>, !.mounted = << >>]
         IN  IF PodContainers(p) = << >> THEN [t EXCEPT !.pc = "script"]
             ELSE [t EXCEPT !.ct = 1,
                            !.calls = MountCalls(PodContainers(p)[1], s.req),
                            !.pc = "mounts"]
    ELSE [Write(WriteHeader(s, 200), "Containers created") EXCEPT !.pc = "done"]

SubmitRequests == { <<"p1">>, <<"p2">>, <<"p1", "p2">>, << >> }

-----------------------------------------------------------------------------
(* SubmitHandler *)

\* part_000:15-39: read and decode the body; decodeOK is whether io.ReadAll
\* and json.Unmarshal both succeeded
SubmitBegin(h, r) ==
    /\ hs[h].op = "idle"
    /\ nSubmits < MaxSubmits
    /\ nSubmits' = nSubmits + 1
    /\ \E decodeOK \in BOOLEAN :
          hs' = [hs EXCEPT ![h] =
                    IF ~decodeOK
                    THEN Fail([Idle EXCEPT !.op = "Submit"],
                              "Some errors occurred while creating container. Check Slurm Sidecar's logs")
                    ELSE NextPod([Idle EXCEPT !.op = "Submit", !.req = r])]
    /\ UNCHANGED <<JIDs, fs, prefix, timer, cachedStatus, now, slurm, loadErr, listing, lastStatus, config, environ>>

\* part_000:48-59, aux.go:165-172: the next step of prepareMounts for the
\* container in hand is os.MkdirAll of the working directory, which cannot
\* fail on a directory that exists.  On an error SubmitHandler answers 500
\* and removes the working directory (part_000:61-67).
SubmitMounts(h) ==
    /\ hs[h].op = "Submit" /\ hs[h].pc = "mounts"
    /\ LET path == FilesPath(Cur(h))
       IN  \E mkdirOK \in BOOLEAN :
             /\ ~mkdirOK => ~Exists(fs, path)
             /\ IF mkdirOK
                THEN /\ fs' = MkdirAll(fs, path)
                     /\ hs' = [hs EXCEPT ![h] =
                                 Advance([@ EXCEPT !.calls = Tail(@), !.made = TRUE])]
                ELSE /\ fs' = RemoveAll(fs, path)
                     /\ hs' = [hs EXCEPT ![h] =
                                 Fail(@, "Error prepairing mounts. Check Slurm Sidecar's logs")]
    /\ UNCHANGED <<JIDs, prefix, timer, cachedStatus, now, slurm, nSubmits, loadErr, listing, lastStatus, config, environ>>

\* aux.go:177, 197, 216 and 428-479: the next step of prepareMounts is a call
\* of mountData, which returns, or panics on a DefaultMode that is nil, or
\* starts mkdir and waits.  When it returns the error of os.RemoveAll,
\* SubmitHandler answers 500 and removes the working directory
\* (aux.go:178-181, 198-201, part_000:61-67).
SubmitMountData(h) ==
    /\ hs[h].op = "Submit" /\ hs[h].pc = "mountData"
    /\ LET c == Head(hs[h].calls)
           path == FilesPath(Cur(h))
       IN  \E order \in KeyOrders(KeysOf(c)),
              rmFail \in 0..Len(MatchedVolumes(CurContainer(h), c.pod)) :
             LET e == mountEntry(path, CurContainer(h), c.pod, c.kind, c.data,
                                 order, rmFail, [fs |-> fs, vars |-> environ.vars])
             IN  /\ fs' = IF e.err THEN RemoveAll(e.fs, path) ELSE e.fs
                 /\ environ' = [environ EXCEPT !.vars = e.vars]
                 /\ hs' = [hs EXCEPT ![h] =
                             IF e.err
                             THEN Fail(@, "Error prepairing mounts. Check Slurm Sidecar's logs")
                             ELSE IF e.panic THEN Panic(@)
                             ELSE IF e.wait THEN [@ EXCEPT !.md = e, !.pc = "mountFiles"]
                             ELSE Advance(Returned(@, c.kind, e.paths, e.envs))]
    /\ UNCHANGED <<JIDs, prefix, timer, cachedStatus, now, slurm, nSubmits, loadErr, listing, lastStatus, config>>

\* aux.go:479-509, 554-584, 599-608: mkdir has ended; mountData tests its
\* result, writes the files of the keys and returns
SubmitMountFiles(h) ==
    /\ hs[h].op = "Submit" /\ hs[h].pc = "mountFiles"
    /\ LET e == hs[h].md
           path == FilesPath(Cur(h))
       IN  \E exec \in {"ok", "stderr", "err"}, worder \in KeyOrders(Len(e.files)),
              wrote \in SUBSET (1..Len(e.files)) :
             LET r == mountFiles(e, exec, worder, wrote, fs)
             IN  IF r.err
                 THEN /\ fs' = RemoveAll(r.fs, path)
                      /\ hs' = [hs EXCEPT ![h] =
                                  Fail(@, "Error prepairing mounts. Check Slurm Sidecar's logs")]
                 ELSE /\ fs' = r.fs
                      /\ hs' = [hs EXCEPT ![h] =
                                  Advance(Returned([@ EXCEPT !.md = << >>],
                                                   e.kind, r.paths, r.envs))]
    /\ UNCHANGED <<JIDs, prefix, timer, cachedStatus, now, slurm, nSubmits, loadErr, listing, lastStatus, config, environ>>

\* produceSLURMScript, aux.go:250-277: MkdirAll, os.Create, os.Chmod
SubmitScript(h) ==
    /\ hs[h].op = "Submit" /\ hs[h].pc = "script"
    /\ LET p == Cur(h)
           path == FilesPath(p)
       IN  \E res \in {"ok", "mkdir", "create", "chmod"} :
             /\ res = "mkdir" => ~Exists(fs, path)
             /\ CASE res = "ok" ->
                       /\ fs' = Put(MkdirAll(fs, path), JobScript(p), FileOf(EmptyScript))
                       /\ hs' = [hs EXCEPT ![h] =
                                   [@ EXCEPT !.made = TRUE,
                                             !.stmts = PrefixStatements(p),
                                             !.after = "write",
                                             !.pc = IF PrefixStatements(p) # << >>
                                                    THEN "prefixRead" ELSE "write"]]
                  [] res = "mkdir" ->
                       /\ fs' = RemoveAll(fs, path)
                       /\ hs' = [hs EXCEPT ![h] =
                                   Fail(@, "Error producing Slurm script. Check Slurm Sidecar's logs")]
                  [] res = "create" ->
                       /\ fs' = RemoveAll(MkdirAll(fs, path), path)
                       /\ hs' = [hs EXCEPT ![h] =
                                   Fail([@ EXCEPT !.made = TRUE],
                                        "Error producing Slurm script. Check Slurm Sidecar's logs")]
                  [] res = "chmod" ->
                       /\ fs' = RemoveAll(Put(MkdirAll(fs, path), JobScript(p),
                                              FileOf(EmptyScript)), path)
                       /\ hs' = [hs EXCEPT ![h] =
                                   Fail([@ EXCEPT !.made = TRUE],
                                        "Error producing Slurm script. Check Slurm Sidecar's logs")]
    /\ UNCHANGED <<JIDs, prefix, timer, cachedStatus, now, slurm, nSubmits, loadErr, listing, lastStatus, config, environ>>

\* a statement  prefix += text  (aux.go:188, 207, 301-323) reads the
\* package-level prefix ...
SubmitPrefixRead(h) ==
    /\ hs[h].op = "Submit" /\ hs[h].pc = "prefixRead"
    /\ hs' = [hs EXCEPT ![h] = [@ EXCEPT !.tmp = prefix, !.pc = "prefix"]]
    /\ UNCHANGED <<JIDs, fs, prefix, timer, cachedStatus, now, slurm, nSubmits, loadErr, listing, lastStatus, config, environ>>

\* ... and stores what it read with the text appended (no lock is held
\* between the read and the store)
SubmitPrefix(h) ==
    /\ hs[h].op = "Submit" /\ hs[h].pc = "prefix"
    /\ prefix' = hs[h].tmp \o Head(hs[h].stmts)
    /\ hs' = [hs EXCEPT ![h] =
                LET s == [@ EXCEPT !.stmts = Tail(@), !.tmp = << >>]
                IN  IF s.stmts # << >> THEN [s EXCEPT !.pc = "prefixRead"]
                    ELSE IF s.after = "mounts" THEN Advance(s)
                    ELSE [s EXCEPT !.pc = "write"]]
    /\ UNCHANGED <<JIDs, fs, timer, cachedStatus, now, slurm, nSubmits, loadErr, listing, lastStatus, config, environ>>

\* aux.go:326-357: the script text is built from the package-level prefix as
\* it is now and from the commands of the containers, and written
SubmitWrite(h) ==
    /\ hs[h].op = "Submit" /\ hs[h].pc = "write"
    /\ LET p == Cur(h)
           path == FilesPath(p)
       IN  \E writeOK \in BOOLEAN :
             IF writeOK
             THEN /\ fs' = Put(fs, JobScript(p),
                               FileOf(stringToBeWritten(path, p, hs[h].cmds, prefix)))
                  /\ hs' = [hs EXCEPT ![h] = [@ EXCEPT !.cmds = << >>, !.pc = "sbatch"]]
             ELSE /\ fs' = RemoveAll(fs, path)
                  /\ hs' = [hs EXCEPT ![h] =
                              Fail(@, "Error producing Slurm script. Check Slurm Sidecar's logs")]
    /\ UNCHANGED <<JIDs, prefix, timer, cachedStatus, now, slurm, nSubmits, loadErr, listing, lastStatus, config, environ>>

\* the workload manager takes a new job and numbers it
Accept(sl) == [sl EXCEPT !.jobs = @ \cup {sl.next}, !.next = @ + 1]

\* SLURMBatchSubmit (aux.go:360-383) and part_000:100-108.
\*   execerr  : shell.Execute() returned an error
\*   rejected : sbatch wrote to stderr and took no job
\*   warned   : sbatch took the job and wrote a warning to stderr
\*   accepted : sbatch took the job, stderr empty
\*   silent   : sbatch took no job, stderr empty
SubmitSbatch(h) ==
    /\ hs[h].op = "Submit" /\ hs[h].pc = "sbatch"
    /\ LET p == Cur(h)
           path == FilesPath(p)
           failed == Fail(hs[h], "Error submitting Slurm script. Check Slurm Sidecar's logs")
       IN  \E res \in {"execerr", "rejected", "warned", "accepted", "silent"} :
             CASE res \in {"execerr", "rejected"} ->
                     /\ fs' = RemoveAll(fs, path)
                     /\ slurm' = slurm
                     /\ hs' = [hs EXCEPT ![h] = [failed EXCEPT !.accepted = Append(@, 0)]]
               [] res = "warned" ->
                     /\ fs' = RemoveAll(fs, path)
                     /\ slurm' = Accept(slurm)
                     /\ hs' = [hs EXCEPT ![h] = [failed EXCEPT !.accepted = Append(@, slurm.next)]]
               [] res = "accepted" ->
                     /\ fs' = fs
                     /\ slurm' = Accept(slurm)
                     /\ \E stdout \in SbatchStdouts(slurm.next) :
                          hs' = [hs EXCEPT ![h] =
                                    [@ EXCEPT !.out = StripNewlines(stdout),
                                              !.accepted = Append(@, slurm.next),
                                              !.pc = "jid"]]
               [] res = "silent" ->
                     /\ fs' = fs
                     /\ slurm' = slurm
                     /\ \E stdout \in SbatchSilentStdouts :
                          hs' = [hs EXCEPT ![h] =
                                    [@ EXCEPT !.out = StripNewlines(stdout),
                                              !.accepted = Append(@, 0),
                                              !.pc = "jid"]]
    /\ UNCHANGED <<JIDs, prefix, timer, cachedStatus, now, nSubmits, loadErr, listing, lastStatus, config, environ>>

\* part_000:111-117 and aux.go:411, after handleJID returned an error: the
\* 500 is written, the working directory removed, and deleteContainer called,
\* which reads the job identifier of the registry entry, starts scancel and
\* waits.  f is the disk handleJID left.
SubmitJidError(h, f) ==
    LET p == Cur(h)
        failed == [Fail(hs[h], "Error handling JID. Check Slurm Sidecar's logs")
                     EXCEPT !.pc = "scancel"]
    IN  /\ fs' = RemoveAll(f, FilesPath(p))
        /\ hs' = [hs EXCEPT ![h] =
                    IF PodUID(p) \notin DOMAIN JIDs THEN Panic(failed)
                    ELSE [failed EXCEPT !.jid = JIDs[PodUID(p)].JID]]

\* handleJID, aux.go:385-398: the match, os.Create of JobID.jid, then jid[1],
\* which panics on the nil slice of a failed match, and WriteString
SubmitJidFile(h) ==
    /\ hs[h].op = "Submit" /\ hs[h].pc = "jid"
    /\ LET p == Cur(h)
           jid == FindStringSubmatch(hs[h].out)
       IN  \E res \in {"ok", "create", "write"} :
             CASE res = "create" ->
                     SubmitJidError(h, fs)
               [] res # "create" /\ jid = << >> ->
                     /\ fs' = Put(fs, JobIDFile(p), FileOf(<< >>))
                     /\ hs' = [hs EXCEPT ![h] = Panic(@)]
               [] res = "write" /\ jid # << >> ->
                     SubmitJidError(h, Put(fs, JobIDFile(p), FileOf(<< >>)))
               [] res = "ok" /\ jid # << >> ->
                     /\ fs' = Put(fs, JobIDFile(p), FileOf(jid))
                     /\ hs' = [hs EXCEPT ![h] = [@ EXCEPT !.pc = "insert"]]
    /\ UNCHANGED <<JIDs, slurm, prefix, timer, cachedStatus, now, nSubmits, loadErr, listing, lastStatus, config, environ>>

\* aux.go:411-424 and part_000:118: scancel has ended; deleteContainer goes
\* on and SubmitHandler returns
SubmitScancel(h) ==
    /\ hs[h].op = "Submit" /\ hs[h].pc = "scancel"
    /\ \E scancelOK \in BOOLEAN :
         LET p == Cur(h)
             d == deleteContainerReturn(PodUID(p), FilesPath(p), JIDs, fs, slurm,
                                        hs[h].jid, scancelOK)
         IN  /\ fs' = d.fs
             /\ JIDs' = d.JIDs
             /\ slurm' = d.slurm
             /\ hs' = [hs EXCEPT ![h] =
                         IF d.panic THEN Panic(@) ELSE [@ EXCEPT !.pc = "done"]]
    /\ UNCHANGED <<prefix, timer, cachedStatus, now, nSubmits, loadErr, listing, lastStatus, config, environ>>

\* handleJID, aux.go:400-402: the insertion into the registry
SubmitJidInsert(h) ==
    /\ hs[h].op = "Submit" /\ hs[h].pc = "insert"
    /\ LET p == Cur(h)
           jid == FindStringSubmatch(hs[h].out)
       IN  /\ JIDs' = Put(JIDs, PodUID(p), JidStruct(PodUID(p), jid))
           /\ hs' = [hs EXCEPT ![h] = NextPod(@)]
    /\ UNCHANGED <<fs, prefix, timer, cachedStatus, now, slurm, nSubmits, loadErr, listing, lastStatus, config, environ>>

\* the handler has returned; the goroutine is gone
Response(s) ==
    [valid |-> TRUE, asked |-> s.asked, t0 |-> s.t0, code |-> s.code, text |-> s.text,
     body |-> s.body, json |-> s.json, panic |-> s.panic]

NoResponse ==
    [valid |-> FALSE, asked |-> << >>, t0 |-> 0, code |-> 0, text |-> << >>,
     body |-> << >>, json |-> FALSE, panic |-> FALSE]

Return(h) ==
    /\ hs[h].pc = "done"
    /\ hs' = [hs EXCEPT ![h] = Idle]
    /\ UNCHANGED <<JIDs, fs, prefix, timer, cachedStatus, now, slurm, nSubmits, loadErr, listing,
                   lastStatus, config, environ>>

\* the handler returns and the caller keeps the response it was sent, to
\* compare the next one with
ReturnToCaller(h) ==
    /\ hs[h].op = "Status"
    /\ hs[h].pc = "done"
    /\ hs' = [hs EXCEPT ![h] = Idle]
    /\ lastStatus' = Response(hs[h])
    /\ UNCHANGED <<JIDs, fs, prefix, timer, cachedStatus, now, slurm, nSubmits, loadErr, listing, config, environ>>

-----------------------------------------------------------------------------
(* Delete.  The HTTP handler of Delete is not among the sources; it is the  *)
(* call deleteContainer(uid, filesPath, ...) that SubmitHandler makes at     *)
(* part_000:117, answered with 500 when deleteContainer returns an error.   *)

\* the request names a pod; deleteContainer reads the job identifier of its
\* registry entry (aux.go:411), starts scancel and waits
DeleteHandler(h) ==
    /\ hs[h].op = "idle"
    /\ \E p \in Pods :
         LET s == [Idle EXCEPT !.op = "Delete", !.req = <<p>>, !.idx = 1, !.pc = "scancel"]
         IN  hs' = [hs EXCEPT ![h] =
                      IF PodUID(p) \notin DOMAIN JIDs THEN Panic(s)
                      ELSE [s EXCEPT !.jid = JIDs[PodUID(p)].JID]]
    /\ UNCHANGED <<JIDs, fs, slurm, prefix, timer, cachedStatus, now, nSubmits, loadErr, listing, lastStatus, config, environ>>

\* aux.go:411-424: scancel has ended; deleteContainer goes on, and the
\* handler answers 500 when it returned an error
DeleteScancel(h) ==
    /\ hs[h].op = "Delete" /\ hs[h].pc = "scancel"
    /\ \E scancelOK \in BOOLEAN :
         LET p == Cur(h)
             d == deleteContainerReturn(PodUID(p), FilesPath(p), JIDs, fs, slurm,
                                        hs[h].jid, scancelOK)
         IN  /\ JIDs' = d.JIDs
             /\ fs' = d.fs
             /\ slurm' = d.slurm
             /\ hs' = [hs EXCEPT ![h] =
                         IF d.panic THEN Panic(@)
                         ELSE IF d.err THEN Fail(@, "Error deleting containers")
                         ELSE [Write(WriteHeader(@, 200), "Containers deleted")
                                  EXCEPT !.pc = "done"]]
    /\ UNCHANGED <<prefix, timer, cachedStatus, now, nSubmits, loadErr, listing, lastStatus, config, environ>>

\* the Delete endpoint
Delete(h) == DeleteHandler(h) \/ DeleteScancel(h)

-----------------------------------------------------------------------------
(* Timestamps: Format("2006-01-02 15:04:05.999999999 -0700 MST") and        *)
(* parsingTimeFromString.  An instant is a number of seconds; 0 is the zero *)
(* instant time.Time{}.                                                     *)

IsZero(t) == t = 0

FormatTime(t) == <<"2026-10-30", " ">> \o Digits(t) \o <<" ", "+0000", " ", "UTC">>

NonEmpty(s) == s # << >>

\* strings.Fields: the maximal runs of non-space tokens
Fields(s) == SelectSeq(Split(s, " "), NonEmpty)

DigitValue(c) == CHOOSE d \in 0..9 : DigitChars[d + 1] = c

RECURSIVE ParseNat(_, _)
ParseNat(s, acc) ==
    IF s = << >> THEN acc ELSE ParseNat(Tail(s), 10 * acc + DigitValue(Head(s)))

AllDigits(s) == s # << >> /\ \A i \in 1..Len(s) : IsDigit(s[i])

\* aux.go:43-60: four fields are required, then time.Parse must accept them;
\* any failure gives the zero instant
parsingTimeFromString(stringTime) ==
    LET parts == Fields(stringTime)
    IN  IF Len(parts) # 4 THEN [t |-> 0, err |-> TRUE]
        ELSE IF /\ parts[1] = <<"2026-10-30">>
                /\ AllDigits(parts[2])
                /\ parts[3] = <<"+0000">>
                /\ parts[4] = <<"UTC">>
        THEN [t |-> ParseNat(parts[2], 0), err |-> FALSE]
        ELSE [t |-> 0, err |-> TRUE]

-----------------------------------------------------------------------------
(* Recovery at start-up (LoadJIDs) *)

\* dir.ReadDir(0) of DataRootFolder: the names of its directories
EntryName(q) == SubSeq(q, Len(DataRootFolder) + 1, Len(q))

TopLevelDirs(f) ==
    {EntryName(q) : q \in {x \in DOMAIN f :
                             /\ f[x].kind = "dir"
                             /\ IsPrefixOf(DataRootFolder, x)
                             /\ Len(x) > Len(DataRootFolder)
                             /\ "/" \notin Range(EntryName(x))}}

ReadTime(f, file) ==
    IF Exists(f, file) THEN parsingTimeFromString(f[file].data).t ELSE 0

\* a directory without JobID.jid is reported and passed over: the
\* directories listed after it are still read
RECURSIVE LoadEntries_ContinuesPastMissing(_, _, _)
LoadEntries_ContinuesPastMissing(entries, f, reg) ==
    IF entries = << >> THEN [JIDs |-> reg, err |-> FALSE]
    ELSE LET name == Head(entries)
             dir == DataRootFolder \o name
         IN  IF ~Exists(f, FileIn(dir, <<"JobID.jid">>))
             THEN [LoadEntries_ContinuesPastMissing(Tail(entries), f, reg)
                       EXCEPT !.err = TRUE]
             ELSE LoadEntries_ContinuesPastMissing(Tail(entries), f,
                     Put(reg, name,
                         [PodUID |-> name,
                          JID |-> f[FileIn(dir, <<"JobID.jid">>)].data,
                          StartTime |-> ReadTime(f, StartedAtFile(dir)),
                          EndTime |-> ReadTime(f, FinishedAtFile(dir))]))

\* a timestamp file that is missing or cannot be parsed is fatal as well
RECURSIVE LoadEntries_TimestampsRequired(_, _, _)
LoadEntries_TimestampsRequired(entries, f, reg) ==
    IF entries = << >> THEN [JIDs |-> reg, err |-> FALSE]
    ELSE LET name == Head(entries)
             dir == DataRootFolder \o name
         IN  IF \/ ~Exists(f, FileIn(dir, <<"JobID.jid">>))
                \/ ReadTime(f, StartedAtFile(dir)) = 0
                \/ ReadTime(f, FinishedAtFile(dir)) = 0
             THEN [JIDs |-> reg, err |-> TRUE]
             ELSE LoadEntries_TimestampsRequired(Tail(entries), f,
                     Put(reg, name,
                         [PodUID |-> name,
                          JID |-> f[FileIn(dir, <<"JobID.jid">>)].data,
                          StartTime |-> ReadTime(f, StartedAtFile(dir)),
                          EndTime |-> ReadTime(f, FinishedAtFile(dir))]))

\* aux.go:91-124, the entries taken in the order ReadDir returned them; the
\* key of the record is entry.Name()
RECURSIVE LoadEntries(_, _, _)
LoadEntries(entries, f, reg) ==
    IF entries = << >> THEN [JIDs |-> reg, err |-> FALSE]
    ELSE LET name == Head(entries)
             dir == DataRootFolder \o name
         IN  IF ~Exists(f, FileIn(dir, <<"JobID.jid">>))
             THEN [JIDs |-> reg, err |-> TRUE]
             ELSE LoadEntries(Tail(entries), f,
                     Put(reg, name,
                         [PodUID |-> name,
                          JID |-> f[FileIn(dir, <<"JobID.jid">>)].data,
                          StartTime |-> ReadTime(f, StartedAtFile(dir)),
                          EndTime |-> ReadTime(f, FinishedAtFile(dir))]))

Orders(S) == {o \in [1..Cardinality(S) -> S] : \A x \in S : \E i \in DOMAIN o : o[i] = x}

\* CreateDirectories, aux.go:62-73: the root folder is made when os.Stat
\* finds none; mkdirOK is whether os.MkdirAll succeeds
CreateDirectories(f, mkdirOK) ==
    IF Exists(f, DataRootFolder) THEN [fs |-> f, err |-> FALSE]
    ELSE IF mkdirOK THEN [fs |-> MkdirAll(f, DataRootFolder), err |-> FALSE]
    ELSE [fs |-> f, err |-> TRUE]

\* LoadJIDs, aux.go:75-127.  io: "open" os.Open of the root folder fails (it
\* does when the folder is absent), "readdir" dir.ReadDir fails, "ok"
\* neither; order is the order in which ReadDir lists the directories.
LoadJIDs(f, reg, order, io) ==
    IF io = "open" \/ ~Exists(f, DataRootFolder)
    THEN [JIDs |-> reg, err |-> "open"]
    ELSE IF io = "readdir"
    THEN [JIDs |-> reg, err |-> "readdir"]
    ELSE LET l == LoadEntries(order, f, reg)
         IN  [JIDs |-> l.JIDs, err |-> IF l.err THEN "readfile" ELSE ""]

\* the sidecar process stops (whatever its handlers were doing) and starts
\* again: the package-level variables are fresh, the root folder is made if
\* need be, and the registry is an empty map filled by LoadJIDs
Restart ==
    /\ \E mkdirOK \in BOOLEAN, io \in {"ok", "open", "readdir"},
          order \in Orders(TopLevelDirs(fs)) :
         LET c == CreateDirectories(fs, mkdirOK)
             l == LoadJIDs(c.fs, << >>, order, io)
         IN  /\ ~mkdirOK => ~Exists(fs, DataRootFolder)
             /\ fs' = c.fs
             /\ JIDs' = l.JIDs
             /\ loadErr' = l.err
             /\ listing' = IF l.err \in {"open", "readdir"} THEN << >> ELSE order
    /\ prefix' = << >>
    /\ timer' = 0
    /\ cachedStatus' = << >>
    /\ hs' = [h \in Slots |-> Idle]
    /\ environ' = [environ EXCEPT !.vars = << >>]
    /\ UNCHANGED <<now, slurm, nSubmits, lastStatus, config>>

\* time passes
Tick ==
    /\ now + TickStep <= MaxTime
    /\ now' = now + TickStep
    /\ UNCHANGED <<JIDs, fs, prefix, timer, cachedStatus, slurm, hs, nSubmits, loadErr, listing,
                   lastStatus, config, environ>>

-----------------------------------------------------------------------------
(* StatusHandler *)

\* the alternatives of the pattern `(CD|CG|F|PD|PR|R|S|ST)`, in its order
StateCodes ==
    << <<"C", "D">>, <<"C", "G">>, <<"F">>, <<"P", "D">>, <<"P", "R">>,
       <<"R">>, <<"S">>, <<"S", "T">> >>

\* the alternatives that match at the head of s
AltsAt(s) == {k \in 1..Len(StateCodes) : IsPrefixOf(StateCodes[k], s)}

Min(S) == CHOOSE x \in S : \A y \in S : x <= y

\* re.FindString: the leftmost match; at one position the first alternative
\* of the pattern that matches wins.  << >> is the empty string of no match.
RECURSIVE FindString(_)
FindString(s) ==
    IF s = << >> THEN << >>
    ELSE IF AltsAt(s) # {} THEN StateCodes[Min(AltsAt(s))]
    ELSE FindString(Tail(s))

\* one line of  squeue --noheader -a -j <JID>  for a job in state st: job id,
\* partition, name, user, state, time.  Only the state column holds capitals.
SqueueLine(st) == <<" ", "12", " ", "debug", " ", "job", " ", "user", " ">> \o st \o <<" ", "0:00">>

\* the states squeue is made to report: the eight of the pattern, and two it
\* does not list (CA cancelled, TO timeout)
ReportedStates ==
    Range(StateCodes) \cup { <<"C", "A">>, <<"T", "O">> }

\* the result of one squeue call: stderr empty or not, and the state reported
SqueueResults ==
    {[stderr |-> FALSE, state |-> st] : st \in ReportedStates}
    \cup {[stderr |-> TRUE, state |-> << >>]}

ContainerStatus(name, state, start, end, exit, ready) ==
    [Name |-> name, State |-> state, StartedAt |-> start, FinishedAt |-> end,
     ExitCode |-> exit, Ready |-> ready]

PodStatus(p, containers) ==
    [PodName |-> PodName(p), PodUID |-> PodUID(p), PodNamespace |-> PodNamespace(p),
     Containers |-> containers]

\* the newline that echo wrote is not removed before the conversion
Atoi_NoStrip(s) ==
    IF AllDigits(s) THEN [n |-> ParseNat(s, 0), err |-> FALSE]
    ELSE [n |-> 0, err |-> TRUE]

\* strconv.Atoi(strings.Replace(string(statusb), "\n", "", -1))
Atoi(s) ==
    LET t == StripNewlines(s)
    IN  IF AllDigits(t) THEN [n |-> ParseNat(t, 0), err |-> FALSE]
        ELSE [n |-> 0, err |-> TRUE]

\* part_001:83-125, Branch B: the exit status of every container of the pod.
\* readFailAt is the container whose io.ReadAll fails (0: none).  msgs are
\* the messages written to the response, in order: one for every status that
\* is no integer, and the one of the error the handler returned on from
\* inside the loop, when abort is TRUE.
RECURSIVE ExitStatuses(_, _, _, _, _)
ExitStatuses(cts, i, path, f, readFailAt) ==
    IF i > Len(cts) THEN [abort |-> FALSE, msgs |-> << >>, statuses |-> << >>]
    ELSE IF ~Exists(f, StatusFile(path, cts[i].Name))
    THEN [abort |-> TRUE,
          msgs |-> <<"Error retrieving container status. Check Slurm Sidecar's logs">>,
          statuses |-> << >>]
    ELSE IF readFailAt = i
    THEN [abort |-> TRUE,
          msgs |-> <<"Error reading container status. Check Slurm Sidecar's logs">>,
          statuses |-> << >>]
    ELSE LET a == Atoi(f[StatusFile(path, cts[i].Name)].data)
             rest == ExitStatuses(cts, i + 1, path, f, readFailAt)
             cs == ContainerStatus(cts[i].Name, "Terminated", 0, 0,
                                   IF a.err THEN 500 ELSE a.n, FALSE)
         IN  [abort |-> rest.abort,
              msgs |-> (IF a.err
                        THEN <<"Error converting container status.. Check Slurm Sidecar's logs">>
                        ELSE << >>) \o rest.msgs,
              statuses |-> <<cs>> \o rest.statuses]

\* the case of the switch at part_001:135 taken for a match
Terminal(match) ==
    match \in { <<"C", "D">>, <<"F">>, <<"P", "R">>, <<"S", "T">> }
    \/ match \notin Range(StateCodes)

Started(match) == match \in { <<"C", "G">>, <<"R">> }

\* a window half as long
InWindow_Half(t, tm) == 2 * (t - tm) < RateLimitSeconds

\* part_001:38: timeNow.Sub(timer) >= time.Second*10 is false
InWindow(t, tm) == t - tm < RateLimitSeconds

\* part_001:65-75, the head of a turn of  for _, pod := range req : the job
\* identifier is read from the registry entry of the pod, which panics when
\* there is none, squeue -j is started and the handler waits.  After the
\* last pod the loop is left.
Enter(t) ==
    IF t.idx < Len(t.req)
    THEN IF PodUID(t.req[t.idx + 1]) \notin DOMAIN JIDs
         THEN Panic([t EXCEPT !.idx = @ + 1])
         ELSE [t EXCEPT !.idx = @ + 1, !.pc = "poll"]
    ELSE [t EXCEPT !.pc = "store"]

\* the cache timer is set although the self-check failed
StatusSelfCheck_StampOnError(h) ==
    /\ hs[h].op = "Status" /\ hs[h].pc = "squeue"
    /\ \E stderr \in BOOLEAN :
         /\ timer' = IF stderr THEN now ELSE timer
         /\ hs' = [hs EXCEPT ![h] =
                     IF stderr
                     THEN Fail([@ EXCEPT !.nsq = 1],
                               "Error executing Squeue. Check Slurm Sidecar's logs")
                     ELSE Enter([@ EXCEPT !.nsq = 1])]
    /\ UNCHANGED <<JIDs, fs, prefix, cachedStatus, now, slurm, nSubmits, loadErr, listing, lastStatus, config, environ>>

\* part_001:22-29: the clock is read, and the handler waits for the body of
\* the request
StatusBegin(h, r) ==
    /\ hs[h].op = "idle"
    /\ hs' = [hs EXCEPT ![h] =
                [Idle EXCEPT !.op = "Status", !.asked = r, !.timeNow = now,
                             !.t0 = now, !.pc = "body"]]
    /\ UNCHANGED <<JIDs, fs, prefix, timer, cachedStatus, now, slurm, nSubmits, loadErr, listing, lastStatus, config, environ>>

\* part_001:29-53: the body has come; the instant read at line 27 is compared
\* with the package-level timer as it is now.  Outside the window the body is
\* decoded and squeue --me started.  res: which of io.ReadAll and
\* json.Unmarshal fails, if any.
StatusBody(h) ==
    /\ hs[h].op = "Status" /\ hs[h].pc = "body"
    /\ \E res \in {"ok", "read", "json"} :
         LET s == [hs[h] EXCEPT !.timer0 = timer, !.cached0 = cachedStatus]
             msg == "Some errors occurred while retrieving container status. Check Slurm Sidecar's logs"
         IN  hs' = [hs EXCEPT ![h] =
                CASE res = "read" -> Fail([s EXCEPT !.readErr = TRUE], msg)
                  [] res # "read" /\ InWindow(s.timeNow, timer) -> [s EXCEPT !.pc = "cached"]
                  [] res = "json" /\ ~InWindow(s.timeNow, timer) -> Fail(s, msg)
                  [] res = "ok" /\ ~InWindow(s.timeNow, timer) ->
                        [s EXCEPT !.req = s.asked, !.idx = 0, !.pc = "squeue"]]
    /\ UNCHANGED <<JIDs, fs, prefix, timer, cachedStatus, now, slurm, nSubmits, loadErr, listing, lastStatus, config, environ>>

\* part_001:254: inside the window the package-level cachedStatus is taken
StatusCached(h) ==
    /\ hs[h].op = "Status" /\ hs[h].pc = "cached"
    /\ hs' = [hs EXCEPT ![h] =
                [@ EXCEPT !.resp = cachedStatus, !.hit = TRUE, !.pc = "respond"]]
    /\ UNCHANGED <<JIDs, fs, prefix, timer, cachedStatus, now, slurm, nSubmits, loadErr, listing, lastStatus, config, environ>>

\* part_001:54-75: squeue --me has ended; if it wrote to stderr the handler
\* answers 500, else the loop over the pods begins
StatusSelfCheck(h) ==
    /\ hs[h].op = "Status" /\ hs[h].pc = "squeue"
    /\ \E stderr \in BOOLEAN :
         hs' = [hs EXCEPT ![h] =
                  IF stderr
                  THEN Fail([@ EXCEPT !.nsq = 1],
                            "Error executing Squeue. Check Slurm Sidecar's logs")
                  ELSE Enter([@ EXCEPT !.nsq = 1])]
    /\ UNCHANGED <<JIDs, fs, prefix, timer, cachedStatus, now, slurm, nSubmits, loadErr, listing, lastStatus, config, environ>>

\* statusCode = 500; w.WriteHeader(statusCode); w.Write(msg), for each
\* message in turn
RECURSIVE WriteErrors(_, _)
WriteErrors(s, msgs) ==
    IF msgs = << >> THEN s
    ELSE WriteErrors([Write(WriteHeader(s, 500), Head(msgs)) EXCEPT !.statusCode = 500],
                     Tail(msgs))

\* part_001:80-127, Branch B: squeue wrote to stderr
BranchB(s, p, f, readFailAt) ==
    LET e == ExitStatuses(PodContainers(p), 1, FilesPath(p), f, readFailAt)
        s1 == WriteErrors(s, e.msgs)
    IN  IF e.abort THEN [s1 EXCEPT !.pc = "done"]
        ELSE [s1 EXCEPT !.resp = Append(@, PodStatus(p, e.statuses))]

\* part_001:137-138, 152-153, ...: the assignment of the case taken for
\* match, made when the test found the instant zero
BranchARecord(rec, match, t) ==
    IF Terminal(match) THEN [rec EXCEPT !.EndTime = t]
    ELSE [rec EXCEPT !.StartTime = t]

\* the timestamp file of the case taken when its test  IsZero()  holds of the
\* record, or << >> when the case has no test or the test fails
BranchAFile(rec, match, path) ==
    IF Terminal(match) /\ IsZero(rec.EndTime) THEN FinishedAtFile(path)
    ELSE IF Started(match) /\ IsZero(rec.StartTime) THEN StartedAtFile(path)
    ELSE << >>

\* the single container status of Branch A, for the pod's first container
BranchAStatus(p, rec, match) ==
    LET name == PodContainers(p)[1].Name
    IN  IF Terminal(match)
        THEN ContainerStatus(name, "Terminated", rec.StartTime, rec.EndTime, 0, FALSE)
        ELSE IF Started(match)
        THEN ContainerStatus(name, "Running", rec.StartTime, 0, 0, TRUE)
        ELSE ContainerStatus(name, "Waiting", 0, 0, 0, FALSE)

\* what one turn of the loop was given: squeue's result, the registry record
\* of the pod at that moment (<< >> when there is none), and for each
\* container whether its .status file was there and readable, and its content
Observed(p, sq, readFailAt) ==
    [pod |-> p, stderr |-> sq.stderr, state |-> sq.state,
     rec |-> IF PodUID(p) \in DOMAIN JIDs THEN JIDs[PodUID(p)] ELSE << >>,
     files |-> [i \in 1..Len(PodContainers(p)) |->
                  LET file == StatusFile(FilesPath(p), PodContainers(p)[i].Name)
                  IN  [readable |-> Exists(fs, file) /\ readFailAt # i,
                       data |-> IF Exists(fs, file) THEN fs[file].data ELSE << >>]]]

\* the end of a turn of Branch A (lines 149-150, 164-165, ...): the container
\* status is built from the registry record as it is now and appended, and
\* the next turn begins
BranchAEnd(s) ==
    LET p == s.req[s.idx]
    IN  IF PodUID(p) \notin DOMAIN JIDs THEN Panic(s)
        ELSE Enter([s EXCEPT !.resp =
                      Append(@, PodStatus(p, <<BranchAStatus(p, JIDs[PodUID(p)], s.match)>>))])

\* part_001:75-135 and 65-75: squeue -j has ended.  sq is what it returned.
\* Branch B runs to its end.  Branch A reads the registry entry (line 133)
\* and tests the instant of the case taken (lines 137, 152, ...): when there
\* is nothing to set the turn ends, else the assignment is next.  No lock is
\* held on the registry between the test and the assignment.
StatusPoll(h) ==
    /\ hs[h].op = "Status" /\ hs[h].pc = "poll"
    /\ LET p == Cur(h)
           uid == PodUID(p)
           path == FilesPath(p)
       IN  \E sq \in SqueueResults, readFailAt \in 0..Len(PodContainers(p)) :
             LET match == FindString(SqueueLine(sq.state))
                 s == [hs[h] EXCEPT !.timeNow = now, !.nsq = @ + 1, !.match = match,
                                    !.obs = Append(@, Observed(p, sq, readFailAt))]
                 done(t) == IF t.pc # "poll" THEN t ELSE Enter(t)
             IN  /\ sq.stderr \/ readFailAt = 0
                 /\ hs' = [hs EXCEPT ![h] =
                             IF sq.stderr THEN done(BranchB(s, p, fs, readFailAt))
                             ELSE IF uid \notin DOMAIN JIDs THEN Panic(s)
                             ELSE IF BranchAFile(JIDs[uid], match, path) = << >>
                             THEN BranchAEnd(s)
                             ELSE [s EXCEPT !.pc = "set"]]
    /\ UNCHANGED <<JIDs, fs, prefix, timer, cachedStatus, now, slurm, nSubmits, loadErr, listing, lastStatus, config, environ>>

\* part_001:138, 153, 168, 186, 201, 219, 234: the instant of the case is
\* set to timeNow in the registry record, and os.Create of the timestamp
\* file is called
StatusSet(h) ==
    /\ hs[h].op = "Status" /\ hs[h].pc = "set"
    /\ LET uid == PodUID(Cur(h))
       IN  IF uid \notin DOMAIN JIDs
           THEN /\ JIDs' = JIDs
                /\ hs' = [hs EXCEPT ![h] = Panic(@)]
           ELSE /\ JIDs' = [JIDs EXCEPT ![uid] =
                              BranchARecord(@, hs[h].match, hs[h].timeNow)]
                /\ hs' = [hs EXCEPT ![h] =
                            [@ EXCEPT !.pc = "create", !.changed = @ \/ JIDs' # JIDs]]
    /\ UNCHANGED <<fs, prefix, timer, cachedStatus, now, slurm, nSubmits, loadErr, listing, lastStatus, config, environ>>

\* part_001:139-147 (154-162, ...): os.Create has returned.  On an error the
\* handler answers 500 and returns, the instant staying set.  Else the file
\* is there and empty, the instant is read from the registry record and
\* formatted, and f.WriteString is called.
StatusCreate(h) ==
    /\ hs[h].op = "Status" /\ hs[h].pc = "create"
    /\ LET p == Cur(h)
           uid == PodUID(p)
           match == hs[h].match
           file == IF Terminal(match) THEN FinishedAtFile(FilesPath(p))
                   ELSE StartedAtFile(FilesPath(p))
       IN  \E createOK \in BOOLEAN :
             /\ createOK => Exists(fs, FilesPath(p))
             /\ IF ~createOK
                THEN /\ fs' = fs
                     /\ hs' = [hs EXCEPT ![h] =
                                 Fail(@, IF Terminal(match)
                                         THEN "Error writing end timestamp... Check Slurm Sidecar's logs"
                                         ELSE "Error writing start timestamp... Check Slurm Sidecar's logs")]
                ELSE /\ fs' = Put(fs, file, FileOf(<< >>))
                     /\ hs' = [hs EXCEPT ![h] =
                                 IF uid \notin DOMAIN JIDs THEN Panic(@)
                                 ELSE [@ EXCEPT !.tmp = FormatTime(IF Terminal(match)
                                                                   THEN JIDs[uid].EndTime
                                                                   ELSE JIDs[uid].StartTime),
                                                !.changed = @ \/ fs' # fs,
                                                !.pc = "write"]]
    /\ UNCHANGED <<JIDs, prefix, timer, cachedStatus, now, slurm, nSubmits, loadErr, listing, lastStatus, config, environ>>

\* part_001:147-150 (162-165, ...): f.WriteString has returned; its result is
\* dropped, so a failed write leaves the file as os.Create made it and the
\* turn goes on all the same
StatusWrite(h) ==
    /\ hs[h].op = "Status" /\ hs[h].pc = "write"
    /\ LET p == Cur(h)
           file == IF Terminal(hs[h].match) THEN FinishedAtFile(FilesPath(p))
                   ELSE StartedAtFile(FilesPath(p))
       IN  \E writeOK \in BOOLEAN :
             /\ fs' = IF writeOK /\ Exists(fs, file)
                      THEN Put(fs, file, FileOf(hs[h].tmp)) ELSE fs
             /\ hs' = [hs EXCEPT ![h] =
                         BranchAEnd([@ EXCEPT !.tmp = << >>, !.changed = @ \/ fs' # fs])]
    /\ UNCHANGED <<JIDs, prefix, timer, cachedStatus, now, slurm, nSubmits, loadErr, listing, lastStatus, config, environ>>

\* part_001:250
StatusStore(h) ==
    /\ hs[h].op = "Status" /\ hs[h].pc = "store"
    /\ cachedStatus' = hs[h].resp
    /\ hs' = [hs EXCEPT ![h] = [@ EXCEPT !.pc = "stamp"]]
    /\ UNCHANGED <<JIDs, fs, prefix, timer, now, slurm, nSubmits, loadErr, listing, lastStatus, config, environ>>

\* part_001:251 (no lock is held across the two assignments)
StatusStamp(h) ==
    /\ hs[h].op = "Status" /\ hs[h].pc = "stamp"
    /\ timer' = now
    /\ hs' = [hs EXCEPT ![h] = [@ EXCEPT !.stamped = now, !.pc = "respond"]]
    /\ UNCHANGED <<JIDs, fs, prefix, cachedStatus, now, slurm, nSubmits, loadErr, listing,
                   lastStatus, config, environ>>

\* part_001:257-271: the header, then the generic message or the responses
\* as JSON
StatusRespond(h) ==
    /\ hs[h].op = "Status" /\ hs[h].pc = "respond"
    /\ hs' = [hs EXCEPT ![h] =
                LET s == WriteHeader(@, @.statusCode)
                IN  IF s.statusCode # 200
                    THEN [Write(s, "Some errors occurred deleting containers. Check Docker Sidecar's logs")
                          EXCEPT !.pc = "done"]
                    ELSE [s EXCEPT !.body = s.resp, !.json = TRUE, !.pc = "done"]]
    /\ UNCHANGED <<JIDs, fs, prefix, timer, cachedStatus, now, slurm, nSubmits, loadErr, listing, lastStatus, config, environ>>

\* the steps of a call that finds the cache stale
StatusFresh(h) ==
    \/ StatusBody(h)
    \/ StatusSelfCheck(h)
    \/ StatusPoll(h)
    \/ StatusSet(h)
    \/ StatusCreate(h)
    \/ StatusWrite(h)
    \/ StatusStore(h)
    \/ StatusStamp(h)
    \/ StatusRespond(h)

StatusSteps(h) == StatusFresh(h) \/ StatusCached(h)

Status(h) == (\E r \in SubmitRequests : StatusBegin(h, r)) \/ StatusSteps(h)

-----------------------------------------------------------------------------
(* Concurrent access to the registry *)

\* The accesses to the map *h.JIDs that the next step of the handler s can
\* make, f and sl being the disk and the workload manager when the step
\* begins.  write: the access is the assignment of aux.go:400 or the delete
\* of aux.go:406; fs, slurm: the disk and the workload manager as the step
\* has left them when it comes to the access.
\*   Submit at "jid"     : handleJID failed, the working directory is
\*                         removed, deleteContainer reads at aux.go:411
\*   Submit at "insert"  : the assignment at aux.go:400
\*   at "scancel"        : scancel worked; the read at aux.go:416, then
\*                         os.RemoveAll and the delete of removeJID
\*   Status at "squeue"  : the read at part_001:69 for the first pod
\*   Status at "poll"    : the read at part_001:133
\*   Status at "set"     : the read of the assignment at part_001:138, ...
\*   Status at "create"  : os.Create worked; the read at part_001:147, ...
\*   Status at "write"   : WriteString returned; the read at part_001:149, ...
RegistryAccesses(s, f, sl) ==
    LET p == s.req[s.idx]
        file == IF Terminal(s.match) THEN FinishedAtFile(FilesPath(p))
                ELSE StartedAtFile(FilesPath(p))
        read(g) == [write |-> FALSE, fs |-> g, slurm |-> sl]
        cancelled == [sl EXCEPT !.cancelled = @ \cup {s.jid}]
    IN  CASE s.op = "Submit" /\ s.pc = "jid" ->
                { read(RemoveAll(f, FilesPath(p))) }
          [] s.op = "Submit" /\ s.pc = "insert" ->
                { [write |-> TRUE, fs |-> f, slurm |-> sl] }
          [] s.op \in {"Submit", "Delete"} /\ s.pc = "scancel" ->
                { [write |-> FALSE, fs |-> f, slurm |-> cancelled] } \cup
                (IF PodUID(p) \in DOMAIN JIDs
                 THEN { [write |-> TRUE,
                         fs |-> RemoveAll(f, FilesPath(p) \o <<"/">> \o PodUID(p)),
                         slurm |-> cancelled] }
                 ELSE {})
          [] s.op = "Status" /\ s.pc = "squeue" ->
                IF s.idx < Len(s.req) THEN { read(f) } ELSE {}
          [] s.op = "Status" /\ s.pc \in {"poll", "set"} ->
                { read(f) }
          [] s.op = "Status" /\ s.pc = "create" ->
                IF Exists(f, FilesPath(p)) THEN { read(Put(f, file, FileOf(<< >>))) }
                ELSE {}
          [] s.op = "Status" /\ s.pc = "write" ->
                { read(f) } \cup
                (IF Exists(f, file) THEN { read(Put(f, file, FileOf(s.tmp))) } ELSE {})
          [] OTHER -> {}

\* Two goroutines are in the registry at the same time and one of them
\* writes it (aux.go:400, 406): the runtime finds the map being written and
\* stops the process.  No request in flight is answered; the registry, the
\* package-level variables and what os.Setenv set are gone with the
\* process; the disk and the workload manager stay as the two steps left
\* them.
Fatal ==
    /\ \E x \in Slots, y \in Slots :
         /\ x # y
         /\ \E a \in RegistryAccesses(hs[x], fs, slurm) :
              \E b \in RegistryAccesses(hs[y], a.fs, a.slurm) :
                 /\ a.write \/ b.write
                 /\ fs' = b.fs
                 /\ slurm' = b.slurm
    /\ JIDs' = << >>
    /\ prefix' = << >>
    /\ timer' = 0
    /\ cachedStatus' = << >>
    /\ hs' = [h \in Slots |-> Down]
    /\ environ' = [environ EXCEPT !.vars = << >>]
    /\ UNCHANGED <<now, nSubmits, loadErr, listing, lastStatus, config>>

-----------------------------------------------------------------------------
(* The batch job *)

\* the exit codes a container is made to end with
ExitCodes == {137}

\* what  echo $? > <c>.status  leaves in the file: the redirection creates it
\* empty, the echo then writes the exit code and a newline
StatusContents == { << >> } \cup { Digits(n) \o <<"\n">> : n \in ExitCodes }

\* the job of a submitted pod writes the .status file of one of its
\* containers (the line of job.sh built at aux.go:340-344)
JobWritesStatus ==
    /\ \E p \in Pods, i \in 1..2, c \in StatusContents :
         /\ i <= Len(PodContainers(p))
         /\ Exists(fs, JobScript(p))
         /\ fs[JobScript(p)].data # EmptyScript
         /\ fs' = Put(fs, StatusFile(FilesPath(p), PodContainers(p)[i].Name), FileOf(c))
    /\ UNCHANGED <<JIDs, prefix, timer, cachedStatus, now, slurm, hs, nSubmits, loadErr, listing,
                   lastStatus, config, environ>>

-----------------------------------------------------------------------------

Init ==
    /\ JIDs = << >>
    /\ fs = (DataRootFolder :> Dir)
    /\ prefix = << >>
    /\ timer = 0
    /\ cachedStatus = << >>
    /\ now = RateLimitSeconds
    /\ slurm = [next |-> FirstJob, jobs |-> {}, cancelled |-> {}]
    /\ hs = [h \in Slots |-> Idle]
    /\ nSubmits = 0
    /\ loadErr = ""
    /\ listing = << >>
    /\ lastStatus = NoResponse
    /\ config = [ExportPodData |-> ExportPodData]
    /\ environ = [SHARED_FS |-> "", vars |-> << >>]

\* the steps of mountData, taken only when pod data is exported
SubmitMountSteps(h) ==
    \/ SubmitMountData(h)
    \/ SubmitMountFiles(h)

SubmitSteps(h) ==
    \/ SubmitMounts(h)
    \/ SubmitScript(h)
    \/ SubmitPrefixRead(h)
    \/ SubmitPrefix(h)
    \/ SubmitWrite(h)
    \/ SubmitSbatch(h)
    \/ SubmitJidFile(h)
    \/ SubmitJidInsert(h)

Submit(h) == (\E r \in SubmitRequests : SubmitBegin(h, r)) \/ SubmitSteps(h)

\* Submit, Delete and recovery, one request at a time
Next ==
    \/ Submit(1)
    \/ SubmitScancel(1)
    \/ Delete(1)
    \/ Return(1)
    \/ Restart

Spec == Init /\ [][Next]_vars

\* Status polling after one Submit of the two-container pod, one request at
\* a time, while the clock advances and the job writes its exit codes
NextStatus ==
    \/ (nSubmits = 0 /\ SubmitBegin(1, <<"p2">>))
    \/ SubmitSteps(1)
    \/ Status(1)
    \/ Return(1)
    \/ JobWritesStatus
    \/ Tick

SpecStatus == Init /\ [][NextStatus]_vars

\* one pod is submitted, then a caller asks for its status again and again and
\* keeps the last response it got
NextCache ==
    \/ (nSubmits = 0 /\ SubmitBegin(1, <<"p2">>))
    \/ SubmitSteps(1)
    \/ StatusBegin(1, <<"p2">>)
    \/ StatusSteps(1)
    \/ (hs[1].op = "Submit" /\ Return(1))
    \/ ReturnToCaller(1)
    \/ Tick

SpecCache == Init /\ [][NextCache]_vars

\* two Submit requests, for two different pods, are served by two goroutines
\* whose steps interleave
NextConc ==
    \/ SubmitBegin(1, <<"p1">>)
    \/ SubmitBegin(2, <<"p2">>)
    \/ \E h \in Slots : SubmitSteps(h)
    \/ Fatal

SpecConc == Init /\ [][NextConc]_vars

\* one pod is submitted, then two callers ask for its status at the same
\* time: two goroutines run StatusHandler, their steps interleave, and the
\* clock advances
NextConcStatus ==
    \/ (nSubmits = 0 /\ SubmitBegin(1, <<"p1">>))
    \/ SubmitSteps(1)
    \/ (hs[1].op = "Submit" /\ Return(1))
    \/ \E h \in Slots : StatusBegin(h, <<"p1">>)
    \/ \E h \in Slots : StatusSteps(h)
    \/ Fatal
    \/ Tick

SpecConcStatus == Init /\ [][NextConcStatus]_vars

\* two pods are submitted in one request, their jobs write exit codes, and a
\* caller asks once for the status of both; the cache is stale at that call
NextBatch ==
    \/ (nSubmits = 0 /\ SubmitBegin(1, <<"p1", "p2">>))
    \/ SubmitSteps(1)
    \/ (hs[1].op = "Submit" /\ Return(1))
    \/ StatusBegin(1, <<"p2", "p1">>)
    \/ StatusFresh(1)
    \/ JobWritesStatus

SpecBatch == Init /\ [][NextBatch]_vars

\* what a working directory left by an earlier run of the sidecar may hold:
\* JobID.jid or not (the run stopped between MkdirAll and handleJID), and each
\* timestamp file absent, empty (the run stopped between os.Create and
\* WriteString) or written in full
LeftTimes(file, t) == { << >>, file :> FileOf(<< >>), file :> FileOf(FormatTime(t)) }

LeftDirs(path) ==
    { << >> } \cup
    { (path :> Dir) @@ j @@ st @@ en :
        j \in { << >>, FileIn(path, <<"JobID.jid">>) :> FileOf(Digits(FirstJob)) },
        st \in LeftTimes(StartedAtFile(path), RateLimitSeconds),
        en \in LeftTimes(FinishedAtFile(path), RateLimitSeconds + TickStep) }

\* the sidecar starts on a disk that earlier runs have left, or on one that
\* has no root folder yet.  The working directories are those of the pods
\* p1 and p2 and of a third pod (namespace kube, UID uid3) of an earlier run.
InitRecover ==
    /\ fs \in { (DataRootFolder :> Dir) @@ a @@ b @@ c :
                  a \in LeftDirs(FilesPath("p1")), b \in LeftDirs(FilesPath("p2")),
                  c \in LeftDirs(DataRootFolder \o <<"kube", "-", "uid3">>) }
              \cup { << >> }
    /\ JIDs = << >>
    /\ prefix = << >>
    /\ timer = 0
    /\ cachedStatus = << >>
    /\ now = RateLimitSeconds
    /\ slurm = [next |-> FirstJob + 1, jobs |-> {}, cancelled |-> {}]
    /\ hs = [h \in Slots |-> Idle]
    /\ nSubmits = 0
    /\ loadErr = ""
    /\ listing = << >>
    /\ lastStatus = NoResponse
    /\ config = [ExportPodData |-> ExportPodData]
    /\ environ = [SHARED_FS |-> "", vars |-> << >>]

NextRecover == Restart

SpecRecover == InitRecover /\ [][NextRecover]_vars

\* a deployment is started with pod data exported or not, and with SHARED_FS
\* set to "true" or not set; Submit requests follow one another
InitMounts ==
    /\ config \in [ExportPodData : BOOLEAN]
    /\ environ \in [SHARED_FS : {"true", ""}, vars : { << >> }]
    /\ JIDs = << >>
    /\ fs = (DataRootFolder :> Dir)
    /\ prefix = << >>
    /\ timer = 0
    /\ cachedStatus = << >>
    /\ now = RateLimitSeconds
    /\ slurm = [next |-> FirstJob, jobs |-> {}, cancelled |-> {}]
    /\ hs = [h \in Slots |-> Idle]
    /\ nSubmits = 0
    /\ loadErr = ""
    /\ listing = << >>
    /\ lastStatus = NoResponse

NextMounts == Submit(1) \/ SubmitMountSteps(1) \/ SubmitScancel(1) \/ Return(1)

SpecMounts == InitMounts /\ [][NextMounts]_vars

-----------------------------------------------------------------------------
(* Properties of Submit, Delete and recovery.                                *)

\* a Submit handler that has finished
SubmitDone(h) == hs[h].op = "Submit" /\ hs[h].pc = "done"

\* C1: whenever a Submit handler finishes having failed (a 500 was written,
\* or the handler panicked) on a pod whose working directory it had created,
\* no working directory <DataRootFolder><Namespace>-<PodUID> of that pod is
\* left on disk.
C1_FailedSubmitLeavesNoDirectory ==
    \A h \in Slots :
        (SubmitDone(h) /\ hs[h].made /\ (hs[h].code = 500 \/ hs[h].panic))
            => ~Exists(fs, FilesPath(Cur(h)))

\* the pods of a Submit request that went through every step of the handler
Submitted(h) ==
    IF hs[h].op # "Submit" THEN {}
    ELSE {i \in 1..Len(hs[h].req) :
            i < hs[h].idx \/ (hs[h].pc = "done" /\ hs[h].code = 200)}

\* C2: for every pod that a Submit handler has submitted successfully,
\* JobID.jid exists in the pod's working directory, holds exactly the digits
\* of the job number that sbatch announced, with no newline, and the
\* registry entry of the pod's UID holds the same digits; and at the moment
\* the handler is about to insert the registry entry the file is already
\* written while the registry does not hold that job number yet.
C2_JobIDFileMatchesRegistry ==
    \A h \in Slots :
        /\ \A i \in Submitted(h) :
             LET p == hs[h].req[i]
             IN  /\ Exists(fs, JobIDFile(p))
                 /\ fs[JobIDFile(p)].data = Digits(hs[h].accepted[i])
                 /\ AllDigits(fs[JobIDFile(p)].data)
                 /\ PodUID(p) \in DOMAIN JIDs
                 /\ JIDs[PodUID(p)].JID = fs[JobIDFile(p)].data
        /\ (hs[h].op = "Submit" /\ hs[h].pc = "insert") =>
             LET p == Cur(h)
             IN  /\ Exists(fs, JobIDFile(p))
                 /\ fs[JobIDFile(p)].data = Digits(hs[h].accepted[hs[h].idx])
                 /\ (PodUID(p) \notin DOMAIN JIDs
                     \/ JIDs[PodUID(p)].JID # fs[JobIDFile(p)].data)

\* a Submit of two pods has succeeded and the second job number has two digits
C2_Witness ==
    \E h \in Slots :
        /\ SubmitDone(h) /\ hs[h].code = 200
        /\ Submitted(h) = {1, 2}
        /\ Len(fs[JobIDFile(hs[h].req[2])].data) = 2
        /\ JIDs[PodUID(hs[h].req[2])].JID = fs[JobIDFile(hs[h].req[2])].data

\* a pod whose registry entry, under its UID, is the one persisted on disk
Linked(reg, f, p) ==
    /\ PodUID(p) \in DOMAIN reg
    /\ Exists(f, JobIDFile(p))
    /\ reg[PodUID(p)].JID = f[JobIDFile(p)].data

\* C3: a restart keeps the pod-to-job link: every pod that is registered
\* under its UID with the job number persisted in its JobID.jid before the
\* restart is, after LoadJIDs has rebuilt the registry without an error,
\* again found under its UID with that job number.
C3_LinkSurvivesRestart ==
    [][ \A p \in Pods :
          (Restart /\ loadErr' = "" /\ Linked(JIDs, fs, p))
              => Linked(JIDs', fs', p) ]_vars

\* a Delete handler that has finished
DeleteDone(h) == hs[h].op = "Delete" /\ hs[h].pc = "done"

\* C7: after a Delete of pod P has returned without error, P's UID is not a
\* key of the registry, P's job has been cancelled, and P's working
\* directory does not exist.
C7_DeleteRemovesDirectoryAndEntry ==
    \A h \in Slots :
        (DeleteDone(h) /\ hs[h].code = 200) =>
            /\ PodUID(Cur(h)) \notin DOMAIN JIDs
            /\ ~Exists(fs, FilesPath(Cur(h)))

\* C8: a Delete of pod P during which scancel fails answers with an error and
\* leaves the state as it was: the registry, P's entry included, the files
\* and the working directory are unchanged.
C8_FailedDeleteChangesNothing ==
    [][ \A h \in Slots :
          (hs[h].op = "Delete" /\ hs[h].pc = "scancel" /\ hs'[h].op = "Delete"
              /\ ~hs'[h].panic /\ hs'[h].code # 200)
          => /\ hs'[h].pc = "done" /\ hs'[h].code = 500
             /\ hs'[h].text = <<"Error deleting containers">>
             /\ JIDs' = JIDs
             /\ fs' = fs
             /\ slurm' = slurm ]_vars

\* scancel has failed for a registered pod whose working directory is there
C8_Witness ==
    \E h \in Slots :
        /\ DeleteDone(h) /\ hs[h].code = 500
        /\ PodUID(Cur(h)) \in DOMAIN JIDs
        /\ Exists(fs, JobIDFile(Cur(h)))

\* C9: the prefix region of every job.sh on disk is made of the fragments of
\* its own pod only (here the CommandPrefix and the pod's pre-exec snippet),
\* whatever was submitted before.
C9_PrefixIsLocalToSubmit ==
    \A p \in Pods :
        (Exists(fs, JobScript(p)) /\ fs[JobScript(p)].data # EmptyScript)
            => fs[JobScript(p)].data.prefix = PrefixAppended(p) \o <<"\n">>

\* C10: when two Submit handlers, one per pod, have run concurrently and both
\* have answered 200, the registry holds each pod with the job number sbatch
\* gave it, and the two job.sh are those that the two Submits run one after
\* the other, in one of the two orders, would have written.
C10_ConcurrentSubmitsDoNotInterfere ==
    (\A h \in Slots : SubmitDone(h) /\ hs[h].code = 200 /\ Len(hs[h].req) = 1) =>
        /\ \A h \in Slots :
             /\ PodUID(hs[h].req[1]) \in DOMAIN JIDs
             /\ JIDs[PodUID(hs[h].req[1])].JID = Digits(hs[h].accepted[1])
        /\ \E first \in Slots, second \in Slots :
             LET a == hs[first].req[1]
                 b == hs[second].req[1]
             IN  /\ first # second
                 /\ fs[JobScript(a)].data =
                      stringToBeWritten(FilesPath(a), a,
                          singularity_command_pod(a, NoMounts(a)), PrefixAppended(a))
                 /\ fs[JobScript(b)].data =
                      stringToBeWritten(FilesPath(b), b,
                          singularity_command_pod(b, NoMounts(b)),
                          PrefixAppended(a) \o PrefixAppended(b))

-----------------------------------------------------------------------------
(* Properties of Status.                                                     *)

\* a Status handler that has finished
StatusDone(h) == hs[h].op = "Status" /\ hs[h].pc = "done"

\* what the caller was sent
Sent(s) == [code |-> s.code, text |-> s.text, body |-> s.body, json |-> s.json,
            panic |-> s.panic]

\* C4, as stated: a Status call made less than 10 seconds after an earlier
\* call with the same request body gets the response the earlier call got,
\* and has run no squeue and changed neither the registry nor the files.
C4_CallsWithinWindowAreIdentical ==
    \A h \in Slots :
        (StatusDone(h) /\ lastStatus.valid /\ lastStatus.asked = hs[h].asked
            /\ hs[h].t0 - lastStatus.t0 < RateLimitSeconds)
        => /\ Sent(hs[h]) = Sent(lastStatus)
           /\ hs[h].nsq = 0
           /\ ~hs[h].changed

\* C4, amended: a Status call whose request body could be read and that is
\* made less than 10 seconds after the last poll cycle that ran to its end
\* answers 200 with the responses that cycle cached, and runs no squeue and
\* changes neither the registry nor the files.
C4_CallWithinWindowServedFromCache ==
    \A h \in Slots :
        (StatusDone(h) /\ ~hs[h].readErr
            /\ hs[h].t0 - hs[h].timer0 < RateLimitSeconds)
        => /\ Sent(hs[h]) = [code |-> 200, text |-> << >>, body |-> cachedStatus,
                             json |-> TRUE, panic |-> FALSE]
           /\ hs[h].nsq = 0
           /\ ~hs[h].changed

\* a call made 5 seconds after a cycle has been answered from a cache that
\* holds the status of a pod
C4_Witness ==
    \E h \in Slots :
        /\ StatusDone(h) /\ hs[h].code = 200
        /\ hs[h].timer0 > 0
        /\ hs[h].t0 > hs[h].timer0
        /\ hs[h].t0 - hs[h].timer0 < RateLimitSeconds
        /\ hs[h].body # << >>
        /\ hs[h].body = cachedStatus

\* the container state of the mapping table for a scheduler state code
TableState(st) ==
    IF st \in { <<"C", "G">>, <<"R">> } THEN "Running"
    ELSE IF st \in { <<"P", "D">>, <<"S">> } THEN "Waiting"
    ELSE "Terminated"

\* C5: in Branch A the container state emitted for a pod is the one the table
\* gives for the state code squeue reported: Terminated with the record's
\* start and end instants for CD, F, PR, ST and for any other output,
\* Running with the record's start instant for CG and R, Waiting for PD, S.
C5_BranchAFollowsTable ==
    \A h \in Slots :
        \A i \in 1..Len(hs[h].obs) :
            (hs[h].op = "Status" /\ ~hs[h].obs[i].stderr /\ i <= Len(hs[h].resp)) =>
                LET c == hs[h].resp[i].Containers[1]
                    rec == JIDs[PodUID(hs[h].obs[i].pod)]
                    st == TableState(hs[h].obs[i].state)
                IN  /\ Len(hs[h].resp[i].Containers) = 1
                    /\ c.State = st
                    /\ st = "Terminated" =>
                          (c.StartedAt = rec.StartTime /\ c.FinishedAt = rec.EndTime)
                    /\ st = "Running" => c.StartedAt = rec.StartTime

\* the integer that the job wrote into a .status file, 500 when it is none
CodeOf(data) ==
    IF \E n \in ExitCodes : data = Digits(n) \o <<"\n">>
    THEN CHOOSE n \in ExitCodes : data = Digits(n) \o <<"\n">>
    ELSE 500

\* the pod status that Branch B owes for what it was given
BranchBStatus(o) ==
    PodStatus(o.pod,
        [c \in 1..Len(PodContainers(o.pod)) |->
            ContainerStatus(PodContainers(o.pod)[c].Name, "Terminated", 0, 0,
                            IF o.files[c].readable THEN CodeOf(o.files[c].data) ELSE 500,
                            FALSE)])

\* C6, as stated: in Branch B the response for the pod holds one Terminated
\* status per declared container, with the integer of <container>.status as
\* exit code, or 500 when the file is missing, unreadable or not an integer.
C6_BranchBReportsEveryContainer ==
    \A h \in Slots :
        \A i \in 1..Len(hs[h].obs) :
            (hs[h].op = "Status" /\ hs[h].obs[i].stderr) =>
                /\ i <= Len(hs[h].resp)
                /\ hs[h].resp[i] = BranchBStatus(hs[h].obs[i])

\* every .status file of the pod was there and could be read
AllReadable(o) == \A c \in 1..Len(o.files) : o.files[c].readable

\* C6, amended: in Branch B, when the .status file of every declared
\* container can be opened and read, the cycle records for the pod one
\* Terminated status per declared container, with the integer of the file as
\* exit code, or 500 when the content is not an integer, in which case the
\* call answers HTTP 500; when a file is missing or unreadable the call
\* answers HTTP 500 at once and records no status for the pod.
C6_BranchBReportsReadableContainers ==
    \A h \in Slots :
        \A i \in 1..Len(hs[h].obs) :
            (hs[h].op = "Status" /\ hs[h].obs[i].stderr) =>
                IF AllReadable(hs[h].obs[i])
                THEN /\ i <= Len(hs[h].resp)
                     /\ hs[h].resp[i] = BranchBStatus(hs[h].obs[i])
                     /\ (\E c \in 1..Len(hs[h].obs[i].files) :
                            CodeOf(hs[h].obs[i].files[c].data) = 500)
                        => (hs[h].statusCode = 500 /\ hs[h].code = 500)
                ELSE /\ Len(hs[h].resp) = i - 1
                     /\ i = Len(hs[h].obs)
                     /\ StatusDone(h) /\ hs[h].code = 500 /\ ~hs[h].json

\* Branch B has read the exit code 137 of one container and found the other
\* file empty, and the call has answered
C6_Witness ==
    \E h \in Slots :
        /\ StatusDone(h)
        /\ Len(hs[h].obs) = 1 /\ hs[h].obs[1].stderr /\ AllReadable(hs[h].obs[1])
        /\ Len(hs[h].resp) = 1
        /\ Len(hs[h].resp[1].Containers) = 2
        /\ hs[h].resp[1].Containers[1].ExitCode = 137
        /\ hs[h].resp[1].Containers[2].ExitCode = 500

-----------------------------------------------------------------------------
(* Properties of the registry and of the batch script.                       *)

\* the working directory that a key of the registry stands for: the pod's,
\* when the key is a pod UID, else the directory the key was loaded from
DirOfKey(k) ==
    IF \E p \in Pods : PodUID(p) = k
    THEN FilesPath(CHOOSE p \in Pods : PodUID(p) = k)
    ELSE DataRootFolder \o k

\* C11: in every state reached by Submit (repeated or not), Delete and
\* recovery, every key of the registry has its working directory and the
\* JobID.jid in it on disk.  (The code writes the file before it inserts the
\* entry, so no entry is ever waiting to be persisted.)
C11_RegistryEntriesAreOnDisk ==
    \A k \in DOMAIN JIDs :
        /\ Exists(fs, DirOfKey(k))
        /\ Exists(fs, FileIn(DirOfKey(k), <<"JobID.jid">>))

\* C12: when sbatch has returned without error and with an empty stderr, and
\* its stdout does not match "Submitted batch job <digits>", the step of the
\* handler that handles the output answers 500 and goes on to the clean-up
\* or ends the request, without a crash, inserts nothing into the registry
\* and leaves no JobID.jid.
C12_UnmatchedOutputIsSubmitError ==
    [][ \A h \in Slots :
          (hs[h].op = "Submit" /\ hs[h].pc = "jid"
              /\ FindStringSubmatch(hs[h].out) = << >>
              /\ hs'[h] # hs[h])
          => /\ hs'[h].pc \in {"done", "scancel"}
             /\ hs'[h].code = 500
             /\ ~hs'[h].panic
             /\ JIDs' = JIDs
             /\ ~Exists(fs', JobIDFile(Cur(h))) ]_vars

\* a job.sh that produceSLURMScript has written in full
Written(p) == Exists(fs, JobScript(p)) /\ fs[JobScript(p)].data # EmptyScript

\* the pod asks for MPI wrapping
WantsMpi(p) ==
    /\ "slurm-job.vk.io/mpi-flags" \in AnnotationKeys(p)
    /\ Annotation(p, "slurm-job.vk.io/mpi-flags") # <<"true">>

\* mpiexec -np $SLURM_NTASKS <flags> and a space, as text
MpiHead(p) ==
    <<"mpiexec", " ", "-np", " ", "$SLURM_NTASKS", " ">>
    \o Annotation(p, "slurm-job.vk.io/mpi-flags") \o <<" ">>

\* C13: in every job.sh written, each container line of a pod whose
\* mpi-flags annotation is set and is not "true" begins with
\* mpiexec -np $SLURM_NTASKS, the flags, then the container command; the
\* lines of a pod without the annotation begin with the container command.
C13_MpiWrapping ==
    \A p \in Pods :
        Written(p) =>
            \A i \in 1..Len(fs[JobScript(p)].data.lines) :
                IF WantsMpi(p)
                THEN IsPrefixOf(<<"\n">> \o MpiHead(p) \o <<"singularity">>,
                                fs[JobScript(p)].data.lines[i])
                ELSE IsPrefixOf(<<"\n", "singularity">>,
                                fs[JobScript(p)].data.lines[i])

\* C14: every container line of every job.sh written is made of the
\* SingularityPrefix (extended by the singularity-commands annotation), the
\* head singularity exec --writable-tmpfs --nv -H ..., the --env block, the
\* --bind block, the image, the command and the args, in this order; so it
\* begins with the SingularityPrefix.
C14_ArgumentVectorOrder ==
    \A p \in Pods :
        Written(p) =>
            \A i \in 1..Len(fs[JobScript(p)].data.lines) :
                LET c == PodContainers(p)[i]
                    vector == <<singularityPrefix(p)>>
                              \o << <<"singularity">>, <<"exec">>,
                                    <<"--writable-tmpfs">>, <<"--nv">>, <<"-H">>,
                                    <<"${HOME}/">> \o DataRootFolder \o PodUID(p)
                                        \o <<":${HOME}">> >>
                              \o prepareEnvs(c)
                              \o MountVector(<< >>)
                              \o <<ImageOf(p, c)>>
                              \o c.Command \o c.Args
                IN  /\ IsPrefixOf(<<"\n">> \o singularityPrefix(p),
                                  fs[JobScript(p)].data.lines[i])
                    /\ IsPrefixOf(<<"\n">> \o Join(vector, " "),
                                  fs[JobScript(p)].data.lines[i])

-----------------------------------------------------------------------------
(* Properties of the Status cycle and of its cache.                          *)

SqueueError == <<"Error executing Squeue. Check Slurm Sidecar's logs">>

\* C15: a Status call whose squeue self-check writes to stderr answers 500
\* in the step that sees squeue return, and leaves the cached responses and
\* the cache timer as the call found them, and the registry and the files as
\* they were; and the Status call that follows it is not answered from the
\* cache.
C15_FailedSelfCheckKeepsCache ==
    /\ [][ \A h \in Slots :
             (hs[h].op = "Status" /\ hs[h].pc = "squeue"
                 /\ hs'[h].op = "Status" /\ hs'[h].text = SqueueError)
             => /\ hs'[h].pc = "done" /\ hs'[h].code = 500
                /\ cachedStatus' = cachedStatus /\ cachedStatus' = hs[h].cached0
                /\ timer' = timer /\ timer' = hs[h].timer0
                /\ JIDs' = JIDs /\ fs' = fs ]_vars
    /\ [](\A h \in Slots :
             (hs[h].op = "Status" /\ ~hs[h].readErr
                 /\ lastStatus.valid /\ lastStatus.text = SqueueError)
             => ~hs[h].hit)

\* after a cycle has been cached, a later call has failed at the self-check
\* and the call that followed it has run the self-check again
C15_Witness ==
    \E h \in Slots :
        /\ StatusDone(h) /\ ~hs[h].hit /\ hs[h].nsq >= 1
        /\ lastStatus.valid /\ lastStatus.text = SqueueError
        /\ hs[h].timer0 > 0 /\ hs[h].cached0 # << >>
        /\ timer = hs[h].timer0 => cachedStatus = hs[h].cached0

\* a .status file of the pod was missing, unreadable or held no integer
BadStatusFile(o) ==
    \E c \in 1..Len(o.files) :
        ~o.files[c].readable \/ CodeOf(o.files[c].data) = 500

\* the handler has left cache and timer as it found them
CacheUntouched(h) == timer = hs[h].timer0 /\ cachedStatus = hs[h].cached0

\* C16, as stated: a Status call that met, in Branch B, a .status file that
\* could not be opened, read or parsed as an integer has answered 500, has
\* processed no pod after that one, and has updated neither the cached
\* responses nor the cache timer.
C16_BranchBFailureAbortsCycle ==
    \A h \in Slots :
        \A i \in 1..Len(hs[h].obs) :
            (StatusDone(h) /\ hs[h].obs[i].stderr /\ BadStatusFile(hs[h].obs[i])) =>
                /\ hs[h].code = 500
                /\ i = Len(hs[h].obs)
                /\ CacheUntouched(h)

\* the first pod's file held no integer: the call answered 500, yet the loop
\* went on to the second pod, and the responses were cached and the timer set
C16_Witness ==
    \E h \in Slots :
        /\ StatusDone(h) /\ hs[h].code = 500
        /\ Len(hs[h].obs) = 2
        /\ hs[h].obs[1].stderr /\ AllReadable(hs[h].obs[1]) /\ BadStatusFile(hs[h].obs[1])
        /\ Len(hs[h].resp) = 2
        /\ cachedStatus = hs[h].resp
        /\ timer = hs[h].stamped /\ hs[h].stamped >= hs[h].t0
        /\ ~CacheUntouched(h)


\* a handler whose next instruction writes the registry: the map assignment
\* of handleJID (aux.go:400).  The handler holds no lock there: SidecarHandler
\* has no mutex (aux.go:21-25) and no handler acquires one.
AtRegistryWrite(h) == hs[h].op = "Submit" /\ hs[h].pc = "insert"

\* C17: access to the registry is serialized: never are two handlers at the
\* same time inside an access to the registry of which at least one is a
\* write (here: two Submit handlers both at the insertion of handleJID).
C17_RegistryAccessIsSerialized ==
    \A a \in Slots, b \in Slots :
        a # b => ~(AtRegistryWrite(a) /\ AtRegistryWrite(b))

\* two Submit handlers, for two pods, both about to insert into the registry
C17_Witness ==
    /\ AtRegistryWrite(1) /\ AtRegistryWrite(2)
    /\ hs[1].req # hs[2].req
    /\ \A h \in Slots : PodUID(hs[h].req[hs[h].idx]) \notin DOMAIN JIDs


\* C18: when the first Submit request carries several pods and pod number k
\* fails, the request is answered 500; every pod before k stays submitted
\* (registry entry, working directory and JobID.jid kept); pod k is cleaned
\* up (no directory, no registry entry); no pod after k is processed (no
\* directory, no registry entry, no sbatch invocation).
C18_FailureAtPodKAbortsRequest ==
    \A h \in Slots :
        (/\ SubmitDone(h) /\ nSubmits = 1
         /\ Len(hs[h].req) > 1 /\ hs[h].idx >= 1
         /\ (hs[h].code # 200 \/ hs[h].panic)) =>
            LET k == hs[h].idx
            IN  /\ hs[h].code = 500
                /\ \A i \in 1..(k - 1) :
                     /\ PodUID(hs[h].req[i]) \in DOMAIN JIDs
                     /\ Exists(fs, FilesPath(hs[h].req[i]))
                     /\ Exists(fs, JobIDFile(hs[h].req[i]))
                /\ ~Exists(fs, FilesPath(hs[h].req[k]))
                /\ PodUID(hs[h].req[k]) \notin DOMAIN JIDs
                /\ \A i \in (k + 1)..Len(hs[h].req) :
                     /\ ~Exists(fs, FilesPath(hs[h].req[i]))
                     /\ PodUID(hs[h].req[i]) \notin DOMAIN JIDs
                /\ Len(hs[h].accepted) <= k

\* the second pod of a request failed after the first had been submitted
C18_Witness ==
    \E h \in Slots :
        /\ SubmitDone(h) /\ nSubmits = 1
        /\ Len(hs[h].req) = 2 /\ hs[h].idx = 2
        /\ hs[h].code = 500 /\ hs[h].made
        /\ PodUID(hs[h].req[1]) \in DOMAIN JIDs
        /\ Exists(fs, JobIDFile(hs[h].req[1]))
        /\ ~Exists(fs, FilesPath(hs[h].req[2]))


\* the Status handler in slot h ran a poll cycle to its end: it stored its
\* responses and set the timer
CycleCompleted(h) == hs[h].op = "Status" /\ hs[h].stamped > 0

\* C19: the status cache is updated atomically: whenever no Status handler
\* is between the store of the responses and the store of the timer, the
\* pair (cachedStatus, timer) is the initial one or the pair (responses,
\* completion instant) of one and the same completed poll cycle, whatever
\* the interleaving of the concurrent Status calls.
C19_CachePairFromOneCycle ==
    (\A h \in Slots : hs[h].pc # "stamp") =>
        \/ (cachedStatus = << >> /\ timer = 0)
        \/ \E h \in Slots :
             /\ CycleCompleted(h)
             /\ cachedStatus = hs[h].resp
             /\ timer = hs[h].stamped

\* two concurrent Status calls have each completed a poll cycle, with
\* different responses at different instants, and both have answered
C19_Witness ==
    /\ \A h \in Slots : StatusDone(h) /\ CycleCompleted(h)
    /\ hs[1].resp # hs[2].resp
    /\ hs[1].stamped # hs[2].stamped
    /\ cachedStatus = hs[1].resp /\ timer = hs[2].stamped


\* the Status handler in slot h ends in this step a turn of its loop that
\* it took through Branch A (squeue's stderr empty): it goes to the next
\* pod, leaves the loop or returns
BranchATurn(h) ==
    /\ hs[h].op = "Status" /\ hs[h].pc \in {"poll", "set", "create", "write"}
    /\ hs'[h].op = "Status" /\ ~hs'[h].panic
    /\ hs'[h].obs # << >> /\ ~hs'[h].obs[Len(hs'[h].obs)].stderr
    /\ \/ hs'[h].pc \in {"store", "done"}
       \/ hs'[h].pc = "poll" /\ hs'[h].idx = hs[h].idx + 1

\* C20: lifecycle timestamps are write-once.  No step changes a StartTime or
\* an EndTime that is not the zero instant; when a turn of the loop that
\* observed R or CG while StartTime was zero ends, StartTime is the poll
\* instant; when one that observed CD, F, PR, ST or an unknown code while
\* EndTime was zero ends, EndTime is the poll instant; a turn that observed
\* PD or S has changed neither, and no turn has set the instant that its
\* code does not govern.
C20_TimestampsAreWriteOnce ==
    [][\A u \in DOMAIN JIDs :
         u \in DOMAIN JIDs' =>
            /\ ~IsZero(JIDs[u].StartTime) => JIDs'[u].StartTime = JIDs[u].StartTime
            /\ ~IsZero(JIDs[u].EndTime) => JIDs'[u].EndTime = JIDs[u].EndTime
            /\ \A h \in Slots :
                 (BranchATurn(h) /\ PodUID(Cur(h)) = u) =>
                    LET seen == hs'[h].obs[Len(hs'[h].obs)]
                        st == TableState(seen.state)
                    IN  /\ (st = "Running" /\ IsZero(seen.rec.StartTime))
                              => JIDs'[u].StartTime = hs'[h].timeNow
                        /\ (st = "Terminated" /\ IsZero(seen.rec.EndTime))
                              => JIDs'[u].EndTime = hs'[h].timeNow
                        /\ st # "Running" => JIDs'[u].StartTime = seen.rec.StartTime
                        /\ st # "Terminated" => JIDs'[u].EndTime = seen.rec.EndTime
      ]_vars

\* a record whose StartTime was set by an earlier poll and whose EndTime was
\* set by a later one, seen again by a poll after that
C20_Witness ==
    \E h \in Slots :
        /\ hs[h].op = "Status" /\ hs[h].obs # << >>
        /\ ~hs[h].obs[Len(hs[h].obs)].stderr
        /\ LET u == PodUID(hs[h].obs[Len(hs[h].obs)].pod)
           IN  /\ u \in DOMAIN JIDs
               /\ ~IsZero(JIDs[u].StartTime)
               /\ JIDs[u].StartTime < JIDs[u].EndTime
               /\ JIDs[u].EndTime < hs[h].timeNow


\* the instant that a timestamp file of a working directory stands for: the
\* one written in it, the zero instant when the file is missing or holds no
\* timestamp in the format the Status handler writes
InstantOf(f, file) ==
    IF Exists(f, file) /\ \E t \in 1..MaxTime : f[file].data = FormatTime(t)
    THEN CHOOSE t \in 1..MaxTime : f[file].data = FormatTime(t)
    ELSE 0

HasJobID(f, name) == Exists(f, FileIn(DataRootFolder \o name, <<"JobID.jid">>))

\* the record that recovery owes for the directory called name
RecoveredFrom(f, name, rec) ==
    /\ rec.JID = f[FileIn(DataRootFolder \o name, <<"JobID.jid">>)].data
    /\ rec.StartTime = InstantOf(f, StartedAtFile(DataRootFolder \o name))
    /\ rec.EndTime = InstantOf(f, FinishedAtFile(DataRootFolder \o name))

\* the root folder was opened and its entries listed: the error, if any, is
\* one of the loop over the entries
Listed(err) == err \notin {"open", "readdir"}

\* C22, as stated: at recovery, once the root folder is opened and listed, a
\* top-level directory without JobID.jid makes recovery report an error
\* and gets no record; every directory with
\* JobID.jid gets a record, with the zero instant for each timestamp file
\* that is missing or unparseable, and without making recovery fail.
C22_MissingJobIDFatalTimestampsOptional ==
    [][(Restart /\ Listed(loadErr')) =>
        /\ \A name \in TopLevelDirs(fs) :
             IF ~HasJobID(fs, name)
             THEN loadErr' # "" /\ name \notin DOMAIN JIDs'
             ELSE name \in DOMAIN JIDs' /\ RecoveredFrom(fs, name, JIDs'[name])
        /\ loadErr' # "" => \E name \in TopLevelDirs(fs) : ~HasJobID(fs, name)
      ]_vars

\* the directories that a scan of the listing o reads before it stops at
\* the first one without JobID.jid (all of them when there is none)
ReadBefore(f, o) ==
    {o[i] : i \in {j \in DOMAIN o : \A b \in 1..j : HasJobID(f, o[b])}}

\* C22, amended: at recovery, once the root folder is opened and listed, a
\* top-level directory without JobID.jid makes recovery report an error
\* and gets no record; recovery stops at the first such directory of the
\* listing: the directories listed before it, and only they, get a record,
\* and those listed after it get none, with or without JobID.jid.  The
\* record of a directory holds the zero instant for each timestamp file that
\* is missing or unparseable; recovery fails only if some directory lacks
\* JobID.jid, and when it does not fail every directory has its record.
C22_RecoveryStopsAtMissingJobID ==
    [][(Restart /\ Listed(loadErr')) =>
        /\ Range(listing') = TopLevelDirs(fs)
        /\ Len(listing') = Cardinality(TopLevelDirs(fs))
        /\ DOMAIN JIDs' = ReadBefore(fs, listing')
        /\ \A name \in TopLevelDirs(fs) :
             /\ ~HasJobID(fs, name) => loadErr' # "" /\ name \notin DOMAIN JIDs'
             /\ name \in DOMAIN JIDs' => RecoveredFrom(fs, name, JIDs'[name])
             /\ loadErr' = "" => name \in DOMAIN JIDs'
        /\ loadErr' # "" <=> \E name \in TopLevelDirs(fs) : ~HasJobID(fs, name)
      ]_vars

\* recovery listed three directories and stopped at the second, which has no
\* JobID.jid: the first, which has no StartedAt.time, has a record with the
\* zero instant; the third has JobID.jid and no record
C22_Witness ==
    /\ loadErr = "readfile"
    /\ Len(listing) = 3
    /\ DOMAIN JIDs = {listing[1]}
    /\ ~HasJobID(fs, listing[2])
    /\ HasJobID(fs, listing[3])
    /\ ~Exists(fs, StartedAtFile(DataRootFolder \o listing[1]))
    /\ JIDs[listing[1]].StartTime = 0 /\ JIDs[listing[1]].EndTime > 0


\* the Submit handler in slot h has finished in the error branch of handleJID
\* (part_000:111-118) for a job that sbatch had accepted
JidPersistFailed(h) ==
    /\ SubmitDone(h)
    /\ hs[h].text = <<"Error handling JID. Check Slurm Sidecar's logs">>
    /\ hs[h].accepted[Len(hs[h].accepted)] > 0

\* C23: when sbatch accepted the job but JobID.jid could not be written, the
\* Submit handler has answered 500 and has terminated normally, scancel has
\* been invoked with the job number that sbatch assigned, and the registry
\* holds no entry for the pod.
C23_PersistFailureCancelsJob ==
    \A h \in Slots :
        JidPersistFailed(h) =>
            /\ hs[h].code = 500
            /\ ~hs[h].panic
            /\ Digits(hs[h].accepted[Len(hs[h].accepted)]) \in slurm.cancelled
            /\ PodUID(Cur(h)) \notin DOMAIN JIDs

\* JobID.jid could not be written for an accepted job of a pod that the
\* registry does not hold: the handler has crashed and nothing was cancelled
C23_Witness ==
    \E h \in Slots :
        /\ JidPersistFailed(h)
        /\ hs[h].panic
        /\ slurm.cancelled = {}
        /\ hs[h].accepted[Len(hs[h].accepted)] \in slurm.jobs


\* C24: no orphan job: after a Submit handler has finished, every job that
\* the workload manager accepted for the request is recorded in the registry
\* under its pod's UID with the pod's working directory present, or has been
\* cancelled with scancel.
C24_NoOrphanJob ==
    \A h \in Slots :
        SubmitDone(h) =>
            \A i \in 1..Len(hs[h].accepted) :
                hs[h].accepted[i] > 0 =>
                    \/ /\ PodUID(hs[h].req[i]) \in DOMAIN JIDs
                       /\ JIDs[PodUID(hs[h].req[i])].JID = Digits(hs[h].accepted[i])
                       /\ Exists(fs, FilesPath(hs[h].req[i]))
                    \/ Digits(hs[h].accepted[i]) \in slurm.cancelled

\* sbatch took the job and wrote a warning to stderr: the Submit has failed,
\* the job runs, and neither a record nor a directory nor a cancel exists
C24_Witness ==
    \E h \in Slots :
        /\ SubmitDone(h) /\ hs[h].code = 500 /\ ~hs[h].panic
        /\ hs[h].text = <<"Error submitting Slurm script. Check Slurm Sidecar's logs">>
        /\ hs[h].accepted[hs[h].idx] \in slurm.jobs
        /\ PodUID(Cur(h)) \notin DOMAIN JIDs
        /\ ~Exists(fs, FilesPath(Cur(h)))
        /\ slurm.cancelled = {}


\* the timestamp file holds the instant t
Persisted(file, t) == Exists(fs, file) /\ fs[file].data = FormatTime(t)

\* C25: in-memory and persisted timestamps agree: whenever no Status handler
\* is between setting an instant and the return of the write of its file, a
\* registry record whose StartTime (resp. EndTime) is not the zero instant
\* has a StartedAt.time (resp. FinishedAt.time) file holding that instant;
\* and a Status call that failed to create a timestamp file has answered 500
\* and has left the record's instant at zero.
C25_TimestampsAgreeWithFiles ==
    /\ \A p \in Pods :
         (/\ PodUID(p) \in DOMAIN JIDs
          /\ \A h \in Slots : ~(hs[h].op = "Status" /\ hs[h].pc \in {"create", "write"})) =>
            /\ ~IsZero(JIDs[PodUID(p)].StartTime) =>
                  Persisted(StartedAtFile(FilesPath(p)), JIDs[PodUID(p)].StartTime)
            /\ ~IsZero(JIDs[PodUID(p)].EndTime) =>
                  Persisted(FinishedAtFile(FilesPath(p)), JIDs[PodUID(p)].EndTime)
    /\ \A h \in Slots :
         StatusDone(h) =>
            /\ hs[h].text = <<"Error writing start timestamp... Check Slurm Sidecar's logs">>
                  => hs[h].code = 500 /\ IsZero(JIDs[PodUID(Cur(h))].StartTime)
            /\ hs[h].text = <<"Error writing end timestamp... Check Slurm Sidecar's logs">>
                  => hs[h].code = 500 /\ IsZero(JIDs[PodUID(Cur(h))].EndTime)

\* os.Create of StartedAt.time failed: the call answered 500, the record
\* holds the poll instant and no file holds it
C25_Witness ==
    \E h \in Slots :
        /\ StatusDone(h) /\ hs[h].code = 500
        /\ hs[h].text = <<"Error writing start timestamp... Check Slurm Sidecar's logs">>
        /\ JIDs[PodUID(Cur(h))].StartTime = hs[h].timeNow
        /\ ~Exists(fs, StartedAtFile(FilesPath(Cur(h))))


\* C27: every Status call that has answered 200 has returned exactly one
\* PodStatus per pod of its own request, in the order of the request, each
\* with that pod's name, UID and namespace.
C27_ResponseMatchesRequest ==
    \A h \in Slots :
        (StatusDone(h) /\ hs[h].code = 200 /\ ~hs[h].panic) =>
            /\ hs[h].json
            /\ Len(hs[h].body) = Len(hs[h].asked)
            /\ \A i \in 1..Len(hs[h].asked) :
                 /\ hs[h].body[i].PodName = PodName(hs[h].asked[i])
                 /\ hs[h].body[i].PodUID = PodUID(hs[h].asked[i])
                 /\ hs[h].body[i].PodNamespace = PodNamespace(hs[h].asked[i])

\* a call for pod p1 made inside the window of a cycle that polled pod p2
\* has answered 200 with the status of p2
C27_Witness ==
    \E h \in Slots :
        /\ StatusDone(h) /\ hs[h].code = 200 /\ hs[h].hit
        /\ hs[h].asked = <<"p1">>
        /\ Len(hs[h].body) = 1
        /\ hs[h].body[1].PodUID = PodUID("p2")


\* the Status handler in slot h comes, in this step, to a pod whose UID the
\* registry lacks
AtUnknownPod(h) ==
    /\ hs[h].op = "Status" /\ hs'[h].op = "Status"
    /\ hs'[h].idx = hs[h].idx + 1
    /\ PodUID(hs'[h].req[hs'[h].idx]) \notin DOMAIN JIDs'

\* C28, for Status: the step of the loop that comes to a pod UID missing
\* from the registry ends the call in an error outcome (an error status
\* written, no crash), and leaves the status cache as it was, and, when the
\* pod is the first of the request, the registry and the disk as well.
C28_UnknownPodIsAnError ==
    [][\A h \in Slots :
         AtUnknownPod(h) =>
            /\ hs'[h].pc = "done"
            /\ ~hs'[h].panic
            /\ hs'[h].code >= 400
            /\ hs[h].idx = 0 => (JIDs' = JIDs /\ fs' = fs)
            /\ cachedStatus' = cachedStatus /\ timer' = timer
      ]_vars

\* a Status call for the pod that was never submitted has crashed, without a
\* response, at the read of the missing entry
C28_Witness ==
    \E h \in Slots :
        /\ StatusDone(h) /\ hs[h].panic /\ hs[h].code = 0
        /\ PodUID(Cur(h)) \notin DOMAIN JIDs
        /\ Cur(h) = "p1"


-----------------------------------------------------------------------------
(* Properties of the mounts.                                                 *)

\* the keys of the config-maps and secrets bundled with pod p for its own
\* containers: the file each is materialized as under the pod's working
\* directory, the environment variable that carries it, and its value
OwnKeys(p) ==
    LET Of(c, kind, vols) ==
            LET vol == CHOOSE v \in Range(PodVolumes(p)) :
                          /\ v.Kind = kind
                          /\ \E m \in Range(c.VolumeMounts) : m.Name = v.Name
                sub == IF kind = "ConfigMap" THEN <<"configMaps">> ELSE <<"secrets">>
                tag == IF kind = "ConfigMap" THEN <<"_CFG_">> ELSE <<"_SECRET_">>
            IN  { [file |-> FilesPath(p) \o <<"/">> \o sub \o <<"/">> \o vol.Name
                            \o <<"/">> \o d.key,
                   env |-> c.Name \o tag \o d.key,
                   kind |-> kind,
                   value |-> d.value] :
                  d \in UNION { Range(v.Data) : v \in Range(vols) } }
    IN  UNION { Of(cb[1], "ConfigMap", cb[2].ConfigMaps) \cup Of(cb[1], "Secret", cb[2].Secrets) :
                cb \in { x \in Range(PodContainers(p)) \X Range(RetrievedContainers(p)) :
                            x[1].Name = x[2].Name } }

\* the positions of a text appended to prefix where the file is touched
TouchesOf(appended, file) ==
    { i \in 1..Len(appended) :
        /\ appended[i] = " && touch "
        /\ i + Len(file) <= Len(appended)
        /\ SubSeq(appended, i + 1, i + Len(file)) = file }

\* the first Submit request of the deployment has prepared the mounts of
\* every container of the pod in hand, with pod data exported; prefix then
\* holds what preparing the mounts of the request's pods has appended
MountsPrepared(h) ==
    /\ config.ExportPodData /\ nSubmits = 1
    /\ hs[h].op = "Submit" /\ hs[h].pc = "script"

\* materialization of the key k, as the statement has it
Materialized(k) ==
    IF environ.SHARED_FS = "true"
    THEN /\ Exists(fs, k.file) /\ fs[k.file] = FileOf(k.value)
         /\ k.env \notin DOMAIN environ.vars
         /\ TouchesOf(prefix, k.file) = {}
    ELSE /\ ~Exists(fs, k.file)
         /\ k.env \in DOMAIN environ.vars /\ environ.vars[k.env] = k.value
         /\ Cardinality(TouchesOf(prefix, k.file)) = 1
         /\ \A i \in TouchesOf(prefix, k.file) :
              LET seg == <<" && echo $">> \o k.env \o <<" > ">> \o k.file
                  from == i + Len(k.file) + 1
              IN  /\ from + Len(seg) - 1 <= Len(prefix)
                  /\ SubSeq(prefix, from, from + Len(seg) - 1) = seg

\* C21: materialization is exclusive per config-map or secret key.  When the
\* mounts of a pod have been prepared with pod data exported: if SHARED_FS
\* is "true", the key's file exists under the working directory with the
\* key's value, no environment variable has been set and nothing has been
\* appended to prefix for it; otherwise the file does not exist on the
\* sidecar host, the variable <containerName>_CFG_<key> or
\* <containerName>_SECRET_<key> holds the value, and exactly one fragment has
\* been appended for the key, which echoes that variable into that file.
C21_MaterializationIsExclusive ==
    \A h \in Slots :
        MountsPrepared(h) => \A k \in OwnKeys(Cur(h)) : Materialized(k)

\* with SHARED_FS "true" the secret of pod p2 was not written and the handler
\* went on to write the script
C21_Witness ==
    \E h \in Slots :
        /\ MountsPrepared(h) /\ environ.SHARED_FS = "true"
        /\ Cur(h) = "p2" /\ hs[h].req = <<"p2">>
        /\ \E k \in OwnKeys("p2") : ~Exists(fs, k.file)

\* what the environment may do during the steps of a prepareMounts that
\* returns no error: every key order, every end of mkdir
RECURSIVE OutcomeSeqs(_, _)
OutcomeSeqs(calls, container) ==
    IF calls = << >> THEN { << >> }
    ELSE { <<o>> \o t :
             o \in { x \in CallOutcomes(KeysOf(Head(calls)),
                                        Len(MatchedVolumes(container, Head(calls).pod))) :
                       /\ x.mkdirOK /\ x.rmFail = 0
                       /\ x.wrote = 1..KeysOf(Head(calls))
                       /\ \A i \in 1..KeysOf(Head(calls)) : x.worder[i] = i },
             t \in OutcomeSeqs(Tail(calls), container) }

\* what prepareMounts can return for a container of pod p when the request
\* holds p alone
Alone(p, container) ==
    LET R(outs) == prepareMounts(FilesPath(p), container, <<p>>, outs,
                                 [fs |-> << >>, vars |-> << >>])
    IN  { [mount |-> R(outs).mount, text |-> Flatten(R(outs).stmts)] :
            outs \in { o \in OutcomeSeqs(MountCalls(container, <<p>>), container) :
                         ~R(o).err /\ ~R(o).panic } }

\* the texts that preparing the mounts of the containers i, i + 1, ... of
\* pod p alone can append to prefix
RECURSIVE AloneFragments(_, _)
AloneFragments(p, i) ==
    IF i > Len(PodContainers(p)) THEN { << >> }
    ELSE { a.text \o b : a \in Alone(p, PodContainers(p)[i]),
                         b \in AloneFragments(p, i + 1) }

\* C26: volume isolation between the pods of one Submit request.  Every
\* container line written into a pod's job.sh is a line built from the
\* config-maps, secrets and empty-dirs bundled with that pod alone, and the
\* fragments that preparing the mounts of the first pod of the first request
\* has appended to prefix are those of that pod alone, whatever other pods
\* the request carries and whatever their containers are called.
C26_VolumesOfOtherPodsAreNotMounted ==
    /\ \A p \in Pods :
         Written(p) =>
            \A i \in 1..Len(fs[JobScript(p)].data.lines) :
                \E a \in Alone(p, PodContainers(p)[i]) :
                    fs[JobScript(p)].data.lines[i] =
                        ScriptLine(FilesPath(p),
                            [command |-> singularity_command(p, PodContainers(p)[i], a.mount),
                             containerName |-> PodContainers(p)[i].Name])
    /\ \A h \in Slots :
         (MountsPrepared(h) /\ hs[h].idx = 1) =>
            prefix \in AloneFragments(Cur(h), 1)

\* pod p1 was submitted together with pod p2, whose container is also called
\* main: the line of p1's job.sh binds the file of p2's secret key
C26_Witness ==
    \E h \in Slots :
        /\ config.ExportPodData
        /\ SubmitDone(h) /\ hs[h].code = 200 /\ hs[h].req = <<"p1", "p2">>
        /\ Written("p1")
        /\ \E i \in 1..Len(fs[JobScript("p1")].data.lines[1]) :
              /\ fs[JobScript("p1")].data.lines[1][i] = "secrets"
              /\ \E j \in i..Len(fs[JobScript("p1")].data.lines[1]) :
                    fs[JobScript("p1")].data.lines[1][j] = "token"

====
